---- MODULE Spec2Model ----
(***************************************************************************)
(* Model of the geospatial alignment and impact-calculation engine of      *)
(* safe-geonode: the bounding-box algebra of impact/storage/utilities.py,  *)
(* the alignment checker, resolution reconciler and impact runner of       *)
(* impact/engine/core.py, the run of the earthquake plugins, and the       *)
(* metadata fetch and upload verification of safe_geonode/storage.py.      *)
(*                                                                         *)
(* Numbers are fixed-point integers.  Each operation states its unit:      *)
(*   bbox_intersection      whole degrees                                  *)
(*   minimal_bounding_box   1.0e-6 (so that eps = 1.0e-6 is one unit)      *)
(*   geotransform2bbox      any unit (pure integer arithmetic)             *)
(*   check_data_integrity   1.0e-8 (so that numpy's atol is one unit)      *)
(*   get_resolutions        0.005 degrees                                  *)
(*   plugins' run           0.001 MMI, 0.1 percent                         *)
(***************************************************************************)
EXTENDS Integers, Sequences, FiniteSets, TLC

(***************************************************************************)
(* Bounds of the model                                                     *)
(***************************************************************************)
MaxBoxes == 2        \* bbox_intersection is called with 0 .. MaxBoxes boxes
MaxC == 2            \* minimal_bounding_box: coordinates and min_res in 0 .. MaxC
MaxDim == 3          \* geotransform2bbox: rows and columns in 1 .. MaxDim
MaxLayers == 2       \* check_data_integrity is called with 0 .. MaxLayers layers
MaxFeatures == 2     \* run: the exposure layer has 1 .. MaxFeatures features
MaxKeywords == 2     \* get_metadata: the layer has 0 .. MaxKeywords keywords
MaxFiles == 2        \* save_to_geonode: a directory holds 0 .. MaxFiles files

VARIABLES
    pc,        \* position of the running call: "call", "done" (pure functions)
    args,      \* bbox_intersection: the tuple of boxes passed as *args
    result,    \* bbox_intersection: what the call returned or raised
    bbox,      \* minimal_bounding_box: the box passed in
    min_res,   \* minimal_bounding_box: the resolution passed in
    grown,     \* minimal_bounding_box: the box returned
    gt,        \* geotransform2bbox: the geotransform passed in
    columns,   \* geotransform2bbox: number of columns passed in
    rows,      \* geotransform2bbox: number of rows passed in
    gbbox,     \* geotransform2bbox: the box returned
    layer_files,           \* check_data_integrity: the list of layers passed in
    idx,                   \* check_data_integrity: index of the layer the running loop is at
    reference_projection,  \* check_data_integrity: local variable
    geotransform,          \* check_data_integrity: local variable
    coordinates,           \* check_data_integrity: local variable
    M,                     \* check_data_integrity: minimal number of rows found
    N,                     \* check_data_integrity: minimal number of columns found
    outcome,               \* check_data_integrity: returned normally, or the exception raised
    haz_metadata,    \* get_resolutions: metadata of the hazard layer
    exp_metadata,    \* get_resolutions: metadata of the exposure layer
    raster_resolution,    \* get_resolutions: what the call returned
    impact_fcn,    \* calculate_impact: the plugin class passed in
    step,    \* calculate_impact: the statement the call is at
    trace,    \* calculate_impact: the steps executed so far, in order
    F,    \* calculate_impact: the layer returned by the plugin's run
    output_filename,    \* calculate_impact: local variable
    style,    \* calculate_impact: local variable
    files,    \* calculate_impact: the files written so far
    raised,    \* calculate_impact: the exception a callee raised
    impact_result,    \* calculate_impact: what the call returned or raised
    plugin,    \* run: the impact function class whose run is called
    exposure,    \* run: E, the exposure layer (layers[1])
    shaking,    \* run: the hazard values interpolated to the exposure features
    feature_index,    \* run: the loop variable i, counted from 1
    computed,    \* run: the damage quantity computed for each feature so far
    building_damage,    \* run: the list of result dictionaries
    impact_layer,    \* run: what the call returned or raised
    ows_service,    \* get_metadata: the service whose contents hold the layer name
    ows_layer,    \* get_metadata: the OWSLib layer object found
    layer_metadata,    \* get_metadata: what the call returned or raised
    check_metadata,    \* save_file_to_geonode: the flag passed in
    uploaded_layer,    \* save_file_to_geonode: the layer object the upload returned
    retry,    \* save_file_to_geonode: the loop variable i
    ok,    \* save_file_to_geonode: local variable
    errmsg,    \* save_file_to_geonode: the exception caught last
    attempts,    \* save_file_to_geonode: the outcome of every check_layer call so far
    slept,    \* save_file_to_geonode: time spent in time.sleep, in tenths of a second
    upload_result,    \* save_file_to_geonode: what the call returned or raised
    incoming,    \* save_to_geonode: what the path passed in denotes on disk
    ignore_errors,    \* save_to_geonode: the flag passed in
    verbosity,    \* save_to_geonode: the number passed in
    skip,    \* save_to_geonode: the flag passed in
    potential_files,    \* save_to_geonode: local variable
    file_number,    \* save_to_geonode: the loop variable i, counted from 1
    status,    \* save_to_geonode: local variable, unbound at first
    current_layer,    \* save_to_geonode: the local variable layer, unbound at first
    output,    \* save_to_geonode: local variable
    attempted,    \* save_to_geonode: the files save_file_to_geonode was called for
    save_result,    \* save_to_geonode: what the call returned or raised
    source_file,    \* save_file_to_geonode: the file named by filename, and whether it is the one to ignore
    title_arg,    \* save_file_to_geonode: the title passed in
    kw_lines,    \* save_file_to_geonode: the lines of the .keywords file next to the layer file, None if there is none
    line_no,    \* save_file_to_geonode: position of the loop over f.readlines(), counted from 1
    current_keyword,    \* save_file_to_geonode: local variable keyword
    keyword_list,    \* save_file_to_geonode: local variable
    kw_title,    \* save_file_to_geonode: local variable
    kw_summary,    \* save_file_to_geonode: local variable
    kw_table,    \* save_file_to_geonode: local variable
    local_extension,    \* save_file_to_geonode: local variable extension
    upload_filename,    \* save_file_to_geonode: local variable
    temp_files,    \* save_file_to_geonode: the files of the temporary directory
    uploaded_keywords,    \* save_file_to_geonode: the keywords argument file_upload was called with
    save_file_result,    \* save_file_to_geonode: what the call returned or raised
    kw_dict,    \* write_keywords: the dictionary passed in
    kw_file,    \* the .keywords file: its characters, None while it does not exist
    write_result,    \* write_keywords: what the call returned or raised
    read_result,    \* read_keywords: what the call returned or raised
    polygon,    \* calculate_polygon_centroid: the closed ring passed in
    shift,    \* the vector the ring is translated by for the second call
    polygon_area,    \* calculate_polygon_area: what the call on the ring returned
    centroid,    \* calculate_polygon_centroid: what the call on the ring returned
    centroid_reversed,    \* calculate_polygon_centroid: what the call on the ring in the opposite winding returned
    centroid_translated,    \* calculate_polygon_centroid: what the call on the translated ring returned
    first_verdict,    \* check_data_integrity on the pair in the order given: passed or failed, none before it finished
    inv_pc,    \* two calculate_impact calls: the statement each call is at
    inv_extension,    \* two calculate_impact calls: local variable extension of each call
    inv_filename,    \* two calculate_impact calls: local variable output_filename of each call
    shared_disk,    \* the files of the temporary directories, each with the call that wrote it last
    clobbered    \* the layer and style files of one call that the other call has overwritten

bboxVars == <<args, result>>
minVars == <<bbox, min_res, grown>>
geoVars == <<gt, columns, rows, gbbox>>
pureVars == <<bboxVars, minVars, geoVars>>
locals == <<reference_projection, geotransform, coordinates, M, N>>
integrityVars == <<layer_files, idx, locals, outcome>>
resolutionVars == <<haz_metadata, exp_metadata, raster_resolution>>
impactVars == <<impact_fcn, step, trace, F, output_filename, style, files, raised, impact_result>>
pluginVars == <<plugin, exposure, shaking, feature_index, computed, building_damage, impact_layer>>
metadataVars == <<ows_service, ows_layer, layer_metadata>>
uploadVars == <<check_metadata, uploaded_layer, retry, ok, errmsg, attempts, slept, upload_result>>
saveVars == <<incoming, ignore_errors, verbosity, skip, potential_files, file_number, status, current_layer, output, attempted, save_result>>
saveFileVars == <<source_file, title_arg, kw_lines, line_no, current_keyword, keyword_list, kw_title, kw_summary, kw_table, local_extension, upload_filename, temp_files, uploaded_keywords, save_file_result>>
keywordsVars == <<kw_dict, kw_file, write_result, read_result>>
centroidVars == <<polygon, shift, polygon_area, centroid, centroid_reversed, centroid_translated>>
pairVars == <<first_verdict>>
overlapVars == <<inv_pc, inv_extension, inv_filename, shared_disk, clobbered>>
vars == <<pc, pureVars, integrityVars, resolutionVars, impactVars, pluginVars, metadataVars, uploadVars, saveVars, saveFileVars, keywordsVars, centroidVars, pairVars, overlapVars>>

\* The frame of an action: the variables of every operation other than the
\* ones named in S are left alone.
Frame(S) ==
    /\ IF "bbox" \in S THEN TRUE ELSE UNCHANGED bboxVars
    /\ IF "minbox" \in S THEN TRUE ELSE UNCHANGED minVars
    /\ IF "geo" \in S THEN TRUE ELSE UNCHANGED geoVars
    /\ IF "integrity" \in S THEN TRUE ELSE UNCHANGED integrityVars
    /\ IF "resolutions" \in S THEN TRUE ELSE UNCHANGED resolutionVars
    /\ IF "impact" \in S THEN TRUE ELSE UNCHANGED impactVars
    /\ IF "plugin" \in S THEN TRUE ELSE UNCHANGED pluginVars
    /\ IF "metadata" \in S THEN TRUE ELSE UNCHANGED metadataVars
    /\ IF "upload" \in S THEN TRUE ELSE UNCHANGED uploadVars
    /\ IF "save" \in S THEN TRUE ELSE UNCHANGED saveVars
    /\ IF "savefile" \in S THEN TRUE ELSE UNCHANGED saveFileVars
    /\ IF "keywords" \in S THEN TRUE ELSE UNCHANGED keywordsVars
    /\ IF "centroid" \in S THEN TRUE ELSE UNCHANGED centroidVars
    /\ IF "pair" \in S THEN TRUE ELSE UNCHANGED pairVars
    /\ IF "overlap" \in S THEN TRUE ELSE UNCHANGED overlapVars

(***************************************************************************)
(* Outcomes of a Python call: a returned value, None, or a raised          *)
(* exception.                                                              *)
(***************************************************************************)
NotCalled == [tag |-> "pending", val |-> <<>>]
None == [tag |-> "None", val |-> <<>>]
Return(v) == [tag |-> "value", val |-> v]
Raise(kind) == [tag |-> kind, val |-> <<>>]
IsError(r) == r.tag \in {"AssertionError", "Exception", "ValueError"}

Max(a, b) == IF a > b THEN a ELSE b
Min(a, b) == IF a < b THEN a ELSE b
Abs(a) == IF a < 0 THEN -a ELSE a

(***************************************************************************)
(* impact/storage/utilities.py: bbox_intersection                          *)
(***************************************************************************)

\* result = [-180, -90, 180, 90]: the running intersection starts as the
\* whole geographic world.
WorldBox == <<-180, -90, 180, 90>>

\* Mutant: the S < N assertion is missing.
BoxCheck_noSouthNorth(box) ==
    IF Len(box) # 4 THEN Raise("AssertionError")
    ELSE IF ~(box[1] < box[3]) THEN Raise("AssertionError")
    ELSE None

\* The checks made on one argument before it is intersected: it must have
\* exactly 4 coordinates, W < E and S < N.  None means "no error".
BoxCheck(box) ==
    IF Len(box) # 4 THEN Raise("AssertionError")
    ELSE IF ~(box[1] < box[3]) THEN Raise("AssertionError")
    ELSE IF ~(box[2] < box[4]) THEN Raise("AssertionError")
    ELSE None

\* Mutant: the western edge is overwritten by the current box instead of
\* being the maximum so far.
IntersectStep_lastWest(res, box) ==
    <<box[1], Max(res[2], box[2]), Min(res[3], box[3]), Min(res[4], box[4])>>

\* Mutant: the northern edge takes the maximum instead of the minimum.
IntersectStep_maxNorth(res, box) ==
    <<Max(res[1], box[1]), Max(res[2], box[2]),
      Min(res[3], box[3]), Max(res[4], box[4])>>

\* "West and South" take the max, "East and North" take the min.
IntersectStep(res, box) ==
    <<Max(res[1], box[1]), Max(res[2], box[2]),
      Min(res[3], box[3]), Min(res[4], box[4])>>

\* The for-loop over args, from argument k on, with running result res,
\* followed by the final validity test.
RECURSIVE bbox_loop(_, _, _)
bbox_loop(a, k, res) ==
    IF k > Len(a)
    THEN IF res[1] < res[3] /\ res[2] < res[4] THEN Return(res) ELSE None
    ELSE IF BoxCheck(a[k]) # None THEN BoxCheck(a[k])
    ELSE bbox_loop(a, k + 1, IntersectStep(res, a[k]))

bbox_intersection(a) ==
    IF ~(Len(a) > 1) THEN Raise("AssertionError")
    ELSE bbox_loop(a, 1, WorldBox)

(***************************************************************************)
(* Inputs of bbox_intersection                                             *)
(***************************************************************************)
\* sampled longitudes and latitudes (degrees): inside and outside the world
Lon == {-200, 0, 100}
Lat == {-100, 0, 50}
Boxes4 == {<<w, s, e, n>> : w \in Lon, s \in Lat, e \in Lon, n \in Lat}
ValidBox(b) == Len(b) = 4 /\ b[1] < b[3] /\ b[2] < b[4]
ValidBoxes == {b \in Boxes4 : ValidBox(b)}
\* arguments with 3 or 5 coordinates
WrongLengthBoxes ==
    {SubSeq(b, 1, 3) : b \in ValidBoxes} \cup {Append(b, 0) : b \in ValidBoxes}
BoxArgs == Boxes4 \cup WrongLengthBoxes
BoxTuples == UNION {[1..n -> BoxArgs] : n \in 0..MaxBoxes}

(***************************************************************************)
(* impact/storage/utilities.py: minimal_bounding_box                       *)
(*                                                                         *)
(* The module is Python 2 without "from __future__ import division": "/"   *)
(* between two ints is floor division, and true division as soon as one    *)
(* operand is a float.  A number is modelled with its Python type and its  *)
(* value v in units of 1.0e-6; an int is a multiple of ONE.                *)
(***************************************************************************)
ONE == 1000000
PyInt(k) == [int |-> TRUE, v |-> k * ONE]
PyFloat(v) == [int |-> FALSE, v |-> v]
PySub(a, b) == [int |-> a.int /\ b.int, v |-> a.v - b.v]
PyAdd(a, b) == [int |-> a.int /\ b.int, v |-> a.v + b.v]

\* a / 2
PyDiv2(a) ==
    IF a.int THEN [int |-> TRUE, v |-> ((a.v \div ONE) \div 2) * ONE]
    ELSE [int |-> FALSE, v |-> a.v \div 2]

\* eps=1.0e-6, the default of the third parameter
DefaultEps == PyFloat(1)

\* One axis: "if delta < min_res: d = (min_res - delta) / 2 + eps;
\* bbox[lo] -= d; bbox[hi] += d".
GrowAxis(lo, hi, res, eps) ==
    LET delta == PySub(hi, lo) IN
    IF delta.v < res.v
    THEN LET d == PyAdd(PyDiv2(PySub(res, delta)), eps)
         IN  <<PySub(lo, d), PyAdd(hi, d)>>
    ELSE <<lo, hi>>

minimal_bounding_box(b, res, eps) ==
    LET x == GrowAxis(b[1], b[3], res, eps)
        y == GrowAxis(b[2], b[4], res, eps)
    IN  <<x[1], y[1], x[2], y[2]>>

\* Inputs: ints 0 .. MaxC and floats 0.0, 0.5, .. MaxC
PyNums == {PyInt(k) : k \in 0..MaxC} \cup {PyFloat(k * (ONE \div 2)) : k \in 0..(2 * MaxC)}
PyBoxes == {<<w, s, e, n>> : w \in PyNums, s \in PyNums, e \in PyNums, n \in PyNums}

\* Python's == on lists of numbers compares values, whatever their types.
SameBox(a, b) == Len(a) = Len(b) /\ \A i \in 1..Len(a) : a[i].v = b[i].v

(***************************************************************************)
(* impact/storage/utilities.py: geotransform2bbox                          *)
(***************************************************************************)

\* Mutant: rows and columns are used for the wrong axes.
geotransform2bbox_swapped(g, cols, rws) ==
    <<g[1], g[4] + cols * g[6], g[1] + rws * g[2], g[4]>>

\* geotransform = (top left x, w-e pixel resolution, rotation,
\*                 top left y, rotation, n-s pixel resolution)
geotransform2bbox(g, cols, rws) ==
    LET x_origin == g[1]
        y_origin == g[4]
        x_res == g[2]
        y_res == g[6]
        minx == x_origin
        maxx == x_origin + (cols * x_res)
        miny == y_origin + (rws * y_res)
        maxy == y_origin
    IN  <<minx, miny, maxx, maxy>>

\* Inputs: north-up and other geotransforms
Geotransforms ==
    {<<xo, w, xr, yo, yr, h>> :
        xo \in {-1, 0}, w \in {-1, 1, 2}, xr \in {0, 1},
        yo \in {0, 1}, yr \in {0, 1}, h \in {-2, -1, 1}}

(***************************************************************************)
(* impact/engine/core.py: check_data_integrity                             *)
(*                                                                         *)
(* Geotransform components and coordinates are in units of 1.0e-8, the     *)
(* default atol of numpy.allclose.  numpy.allclose(a, b, rtol, atol) is    *)
(* all(|a - b| <= atol + rtol * |b|) after broadcasting a and b against    *)
(* each other; it raises ValueError when the shapes cannot be broadcast.   *)
(***************************************************************************)
DEFAULT_PROJECTION == "WGS84"

\* Mutant: 'None' instead of the default, which uses the value of the first
\* layer as the reference.
NoProjection == "None"
InitialReferenceProjection_none == NoProjection

\* reference_projection = Projection(DEFAULT_PROJECTION)
InitialReferenceProjection == DEFAULT_PROJECTION

Atol == 1                  \* numpy's default atol=1.0e-8
DefaultRtolInv == 100000   \* 1 / rtol for numpy's default rtol=1.0e-5
GeotransformRtolInv == 10  \* 1 / rtol for rtol=1.0e-1

\* |a - b| <= atol + rtol * |b|, with rtol = 1 / rtolInv
IsClose(a, b, rtolInv) == rtolInv * Abs(a - b) <= rtolInv * Atol + Abs(b)

\* Mutant: the geotransforms are compared with numpy's default tolerance.
GeotransformsClose_defaultRtol(a, b) ==
    \A i \in 1..6 : IsClose(a[i], b[i], DefaultRtolInv)

\* numpy.allclose(geotransform, layer.get_geotransform(), rtol=1.0e-1)
GeotransformsClose(a, b) ==
    \A i \in 1..6 : IsClose(a[i], b[i], GeotransformRtolInv)

\* Whether numpy can broadcast the geometry arrays of n and of m points:
\* shapes (n, 2) and (m, 2).  An empty geometry is an array of shape (0,)
\* or (0, 2) depending on how the layer holds it (flat2d).
Broadcastable(n, m, flat2d) ==
    IF n > 0 /\ m > 0 THEN n = m \/ n = 1 \/ m = 1
    ELSE IF flat2d THEN (n = 0 /\ m <= 1) \/ (m = 0 /\ n <= 1)
    ELSE n = 0 /\ m = 0

PointsClose(p, q) ==
    IsClose(p[1], q[1], DefaultRtolInv) /\ IsClose(p[2], q[2], DefaultRtolInv)

\* Mutant: the coordinates must be exactly equal.
CoordinatesClose_exact(a, b, flat2d) ==
    IF ~Broadcastable(Len(a), Len(b), flat2d) THEN "ValueError"
    ELSE IF Len(a) = 0 \/ Len(b) = 0 THEN "True"
    ELSE IF \A i \in 1..Len(a) : \A j \in 1..Len(b) :
               (Len(a) = 1 \/ Len(b) = 1 \/ i = j) => a[i] = b[j]
         THEN "True" ELSE "False"

\* numpy.allclose(coordinates, layer.get_geometry()) on point geometries
CoordinatesClose(a, b, flat2d) ==
    IF ~Broadcastable(Len(a), Len(b), flat2d) THEN "ValueError"
    ELSE IF Len(a) = 0 \/ Len(b) = 0 THEN "True"
    ELSE IF \A i \in 1..Len(a) : \A j \in 1..Len(b) :
               (Len(a) = 1 \/ Len(b) = 1 \/ i = j) => PointsClose(a[i], b[j])
         THEN "True" ELSE "False"

\* Mutant: the emptiness of a vector layer is not checked.
HasDataPoints_unchecked(layer) == TRUE

\* len(layer) > 0
HasDataPoints(layer) == Len(layer.geometry) > 0

\* M = N = sys.maxint
maxint == 2147483647

Passed == [tag |-> "ok", check |-> "none", at |-> 0]
Running == [tag |-> "pending", check |-> "none", at |-> 0]
Failed(kind, check, k) == [tag |-> kind, check |-> check, at |-> k]

\* Layers: the attributes check_data_integrity reads
RasterLayer(p, g, r, c) ==
    [is_raster |-> TRUE, is_vector |-> FALSE, projection |-> p,
     geotransform |-> g, geometry |-> <<>>, rows |-> r, columns |-> c]
VectorLayer(p, geom) ==
    [is_raster |-> FALSE, is_vector |-> TRUE, projection |-> p,
     geotransform |-> <<>>, geometry |-> geom, rows |-> 0, columns |-> 0]

BaseGeotransform == <<0, 100, 0, 0, 0, -100>>
SampleGeotransforms ==
    {<<0, w, xr, 0, 0, -100>> : w \in {100, 105, 112, 115}, xr \in {0, 1, 2}}
        \cup {<<0, 100, 0, 0, 0, -115>>}
SampleShapes == {<<1, 1>>, <<1, 2>>, <<2, 1>>}
SampleGeometries ==
    { <<>>,
      << <<0, 0>> >>, << <<1, 0>> >>, << <<3, 0>> >>,
      << <<0, 0>>, <<0, 0>> >>, << <<0, 0>>, <<0, 3>> >>,
      << <<0, 0>>, <<0, 0>>, <<1, 1>> >> }
SampleLayers ==
    {RasterLayer(DEFAULT_PROJECTION, g, sh[1], sh[2]) :
        g \in SampleGeotransforms, sh \in SampleShapes}
    \cup {VectorLayer(DEFAULT_PROJECTION, geom) : geom \in SampleGeometries}
    \cup {RasterLayer("UTM", BaseGeotransform, 1, 1),
          VectorLayer("UTM", << <<0, 0>> >>)}
LayerLists == UNION {[1..n -> SampleLayers] : n \in 0..MaxLayers}

\* The checks of one iteration of the first loop, in the order the code
\* makes them; the name of the first one that fails, or "none".
FirstFailure(layer, ref, g, c, flat2d) ==
    IF ref # NoProjection /\ ref # layer.projection THEN "projection"
    ELSE IF layer.is_raster /\ g # None
            /\ ~GeotransformsClose(g.val, layer.geotransform) THEN "geotransform"
    ELSE IF layer.is_vector /\ c # None
            /\ CoordinatesClose(c.val, layer.geometry, flat2d) = "ValueError"
         THEN "broadcast"
    ELSE IF layer.is_vector /\ c # None
            /\ CoordinatesClose(c.val, layer.geometry, flat2d) = "False"
         THEN "coordinates"
    ELSE IF layer.is_vector /\ ~HasDataPoints(layer) THEN "nodata"
    ELSE "none"

\* One iteration of "for layer in layer_files" (projection, geotransform,
\* coordinates, emptiness): an assertion fails, or the locals are updated.
CheckLayer ==
    /\ pc = "check" /\ idx <= Len(layer_files)
    /\ LET layer == layer_files[idx] IN
       \E flat2d \in BOOLEAN :
       LET failure == FirstFailure(layer, reference_projection, geotransform,
                                   coordinates, flat2d)
       IN  IF failure # "none"
           THEN /\ outcome' = Failed(IF failure = "broadcast" THEN "ValueError"
                                     ELSE "AssertionError",
                                     IF failure = "broadcast" THEN "coordinates"
                                     ELSE failure, idx)
                /\ pc' = "done"
                /\ UNCHANGED <<idx, locals>>
           ELSE /\ reference_projection' =
                      IF reference_projection = NoProjection
                      THEN layer.projection ELSE reference_projection
                /\ geotransform' =
                      IF layer.is_raster /\ geotransform = None
                      THEN Return(layer.geotransform) ELSE geotransform
                /\ coordinates' =
                      IF layer.is_vector /\ coordinates = None
                      THEN Return(layer.geometry) ELSE coordinates
                /\ idx' = idx + 1
                /\ UNCHANGED <<pc, M, N, outcome>>
    /\ UNCHANGED <<layer_files>>
    /\ Frame({"integrity"})

\* The first loop is exhausted: "First find the minimum dimensions".
StartFindMinimum ==
    /\ pc = "check" /\ idx > Len(layer_files)
    /\ pc' = "minimum" /\ idx' = 1
    /\ UNCHANGED <<layer_files, locals, outcome>>
    /\ Frame({"integrity"})

\* One iteration of the loop that finds the minimal rows and columns.
FindMinimum ==
    /\ pc = "minimum" /\ idx <= Len(layer_files)
    /\ LET layer == layer_files[idx] IN
       /\ M' = IF layer.is_raster /\ layer.rows < M THEN layer.rows ELSE M
       /\ N' = IF layer.is_raster /\ layer.columns < N THEN layer.columns ELSE N
    /\ idx' = idx + 1
    /\ UNCHANGED <<pc, layer_files, reference_projection, geotransform,
                   coordinates, outcome>>
    /\ Frame({"integrity"})

\* The second loop is exhausted: "Then check for alignment".
StartCheckAlignment ==
    /\ pc = "minimum" /\ idx > Len(layer_files)
    /\ pc' = "alignment" /\ idx' = 1
    /\ UNCHANGED <<layer_files, locals, outcome>>
    /\ Frame({"integrity"})

\* Mutant: only the rows are compared with the minimum.
CheckAlignment_rowsOnly ==
    /\ pc = "alignment" /\ idx <= Len(layer_files)
    /\ LET layer == layer_files[idx] IN
       IF layer.is_raster /\ layer.rows # M
       THEN outcome' = Failed("AssertionError", "rows", idx)
            /\ pc' = "done" /\ UNCHANGED idx
       ELSE idx' = idx + 1 /\ UNCHANGED <<pc, outcome>>
    /\ UNCHANGED <<layer_files, locals>>
    /\ Frame({"integrity"})

\* One iteration of the alignment loop: rows, then columns, must equal the
\* minimum.
CheckAlignment ==
    /\ pc = "alignment" /\ idx <= Len(layer_files)
    /\ LET layer == layer_files[idx] IN
       IF layer.is_raster /\ layer.rows # M
       THEN outcome' = Failed("AssertionError", "rows", idx)
            /\ pc' = "done" /\ UNCHANGED idx
       ELSE IF layer.is_raster /\ layer.columns # N
       THEN outcome' = Failed("AssertionError", "columns", idx)
            /\ pc' = "done" /\ UNCHANGED idx
       ELSE idx' = idx + 1 /\ UNCHANGED <<pc, outcome>>
    /\ UNCHANGED <<layer_files, locals>>
    /\ Frame({"integrity"})

\* The last loop is exhausted: the function returns.
ReturnFromCheck ==
    /\ pc = "alignment" /\ idx > Len(layer_files)
    /\ pc' = "done" /\ outcome' = Passed
    /\ UNCHANGED <<layer_files, idx, locals>>
    /\ Frame({"integrity"})

(***************************************************************************)
(* impact/engine/core.py: get_resolutions                                  *)
(*                                                                         *)
(* Resolutions are in units of 0.005 degrees.  A metadata dictionary is    *)
(* the record of the two keys the function reads.                          *)
(***************************************************************************)

\* Mutant: the y resolution is taken from the hazard layer alone.
get_resolutions_hazardY(haz, exp) ==
    LET haz_res == IF haz.layer_type = "raster" THEN haz.resolution ELSE None
        exp_res == IF exp.layer_type = "raster" THEN exp.resolution ELSE None
    IN  IF haz_res = None \/ exp_res = None
        THEN None
        ELSE Return(<<Min(haz_res.val[1], exp_res.val[1]), haz_res.val[2]>>)

get_resolutions(haz, exp) ==
    LET haz_res == IF haz.layer_type = "raster" THEN haz.resolution ELSE None
        exp_res == IF exp.layer_type = "raster" THEN exp.resolution ELSE None
    IN  IF haz_res = None \/ exp_res = None
        THEN None
        ELSE Return(<<Min(haz_res.val[1], exp_res.val[1]),
                      Min(haz_res.val[2], exp_res.val[2])>>)

\* sampled resolutions: 0.005, 0.01 and 0.02 degrees per axis
SampleResolutions == {<<x, y>> : x \in {1, 2, 4}, y \in {1, 2, 4}}

\* A raster's metadata carries its resolution; a vector's carries None, and
\* the function does not read the resolution of a vector at all.
SampleMetadata ==
    [layer_type : {"raster"}, resolution : {Return(r) : r \in SampleResolutions}]
    \cup [layer_type : {"vector"},
          resolution : {None} \cup {Return(r) : r \in SampleResolutions}]

NoResolutions ==
    haz_metadata = <<>> /\ exp_metadata = <<>> /\ raster_resolution = NotCalled

(***************************************************************************)
(* impact/engine/core.py: calculate_impact                                 *)
(*                                                                         *)
(* The function is straight-line code without any try/except: an exception *)
(* raised by a callee leaves the function at once, unchanged.  A path is   *)
(* the sequence of its parts, so that str.replace can be modelled by what  *)
(* it does: it replaces every occurrence, wherever it stands in the path.  *)
(***************************************************************************)

\* the plugin classes of impact/plugins/earthquake
ImpactFunctions ==
    {"EarthquakeGuidelinesFunction", "PadangEarthquakeBuildingDamageFunction"}

\* An exception in flight: its class and the parts of its message.
PyException(type, message) == [tag |-> type, val |-> <<>>, message |-> message]
NoException == PyException("none", <<>>)
Pending == PyException("pending", <<>>)
Returned(v) == [tag |-> "value", val |-> v, message |-> <<>>]

\* what a plugin's run or generate_style may raise
PluginExceptions ==
    { PyException("Exception", <<"Input data must be polygon">>),
      PyException("KeyError", <<"VCLASS">>) }

\* directories tempfile.mkstemp may use (TMPDIR, TEMP, TMP, /tmp, ..., the
\* current directory), as the sequence of their parts
TempDirs ==
    { <<"/tmp/">>,
      <<"/srv/layers", ".shp", "/">>,
      <<"/srv/layers", ".tif", "/">> }

\* the random part of the name mkstemp makes up (letters, digits and "_")
TempNames == {"tmpAbc123", "tmpXyz789"}

\* unique_filename(suffix=extension): mkstemp creates dir + name + suffix and
\* the file is removed again; the name is returned.
unique_filename(dir, name, suffix) == dir \o <<name, suffix>>

\* s.replace(old, new): every occurrence of old is replaced.
StrReplace(s, old, new) ==
    [i \in DOMAIN s |-> IF s[i] = old THEN new ELSE s[i]]

Extension(layer) == IF layer = "raster" THEN ".tif" ELSE ".shp"

\* Mutant: the exception is swallowed and the file name returned.
Propagate_swallowed(e) ==
    /\ raised' = e
    /\ impact_result' = Returned(output_filename)
    /\ step' = "returned"

\* An exception leaves calculate_impact: no statement after it is executed.
Propagate(e) ==
    /\ raised' = e
    /\ impact_result' = e
    /\ step' = "failed"

\* line 41: check_data_integrity(layers) has returned or raised.
CheckReturns ==
    /\ step = "check" /\ pc = "done"
    /\ trace' = Append(trace, "check")
    /\ IF outcome = Passed
       THEN step' = "run" /\ UNCHANGED <<raised, impact_result>>
       ELSE Propagate(PyException(outcome.tag, <<outcome.check>>))
    /\ UNCHANGED <<pc, impact_fcn, F, output_filename, style, files>>
    /\ Frame({"impact"})

\* Mutant: the result of the check is ignored.
RunPlugin_unchecked ==
    /\ step \in {"run", "failed"} /\ trace = <<"check">>
    /\ trace' = Append(trace, "run")
    /\ \/ \E layer \in {"raster", "vector"} :
             /\ F' = layer /\ step' = "write_layer"
             /\ UNCHANGED <<raised, impact_result>>
       \/ \E e \in PluginExceptions : Propagate(e) /\ UNCHANGED F
    /\ UNCHANGED <<pc, impact_fcn, output_filename, style, files>>
    /\ Frame({"impact"})

\* lines 44-50: impact_function = impact_fcn(); F = impact_function.run(layers)
RunPlugin ==
    /\ step = "run"
    /\ trace' = Append(trace, "run")
    /\ \/ \E layer \in {"raster", "vector"} :
             /\ F' = layer /\ step' = "write_layer"
             /\ UNCHANGED <<raised, impact_result>>
       \/ \E e \in PluginExceptions : Propagate(e) /\ UNCHANGED F
    /\ UNCHANGED <<pc, impact_fcn, output_filename, style, files>>
    /\ Frame({"impact"})

\* lines 53-61: the extension, the unique file name, F.write_to_file
WriteLayer ==
    /\ step = "write_layer"
    /\ trace' = Append(trace, "write_layer")
    /\ \E dir \in TempDirs, name \in TempNames :
          output_filename' = unique_filename(dir, name, Extension(F))
    /\ \/ /\ files' = files \cup {[name |-> output_filename', content |-> "layer"]}
          /\ step' = "style"
          /\ UNCHANGED <<raised, impact_result>>
       \/ Propagate(PyException("IOError", <<"write_to_file">>)) /\ UNCHANGED files
    /\ UNCHANGED <<pc, impact_fcn, F, style>>
    /\ Frame({"impact"})

\* line 64: style = impact_function.generate_style(F)
GenerateStyle ==
    /\ step = "style"
    /\ trace' = Append(trace, "generate_style")
    /\ \/ /\ style' = "sld" /\ step' = "write_style"
          /\ UNCHANGED <<raised, impact_result>>
       \/ \E e \in PluginExceptions : Propagate(e) /\ UNCHANGED style
    /\ UNCHANGED <<pc, impact_fcn, F, output_filename, files>>
    /\ Frame({"impact"})

\* the name of the style file, line 65
StyleFilename(filename, extension) == StrReplace(filename, extension, ".sld")

\* lines 65-67: open the style file, write the style, close
WriteStyle ==
    /\ step = "write_style"
    /\ trace' = Append(trace, "write_style")
    /\ \/ /\ files' = files \cup
                {[name |-> StyleFilename(output_filename, Extension(F)),
                  content |-> style]}
          /\ step' = "return"
          /\ UNCHANGED <<raised, impact_result>>
       \/ Propagate(PyException("IOError", <<"open">>)) /\ UNCHANGED files
    /\ UNCHANGED <<pc, impact_fcn, F, output_filename, style>>
    /\ Frame({"impact"})

\* line 69: return output_filename
ReturnFilename ==
    /\ step = "return"
    /\ trace' = Append(trace, "return")
    /\ impact_result' = Returned(output_filename)
    /\ step' = "returned"
    /\ UNCHANGED <<pc, impact_fcn, F, output_filename, style, files, raised>>
    /\ Frame({"impact"})

NoImpact ==
    /\ impact_fcn = "" /\ step = "idle" /\ trace = <<>> /\ F = "none"
    /\ output_filename = <<>> /\ style = "none" /\ files = {}
    /\ raised = NoException /\ impact_result = Pending

(***************************************************************************)
(* impact/plugins/earthquake: EarthquakeGuidelinesFunction.run and         *)
(* PadangEarthquakeBuildingDamageFunction.run                              *)
(*                                                                         *)
(* MMI values are in units of 0.001, damage percentages in units of 0.1.   *)
(* An attribute value is a number or a string; a feature's attributes are  *)
(* a function from attribute names to values, as a Python dictionary is.   *)
(***************************************************************************)
Num(n) == [type |-> "number", n |-> n, s |-> ""]
Str(s) == [type |-> "string", n |-> 0, s |-> s]

\* damage_parameters = {'URM': [6, 7], 'RM': [6, 8]}
damage_parameters == [URM |-> <<6000, 7000>>, RM |-> <<6000, 8000>>]

\* Mutant: the lower breakpoint itself still counts as low damage.
Damage_lowInclusive(mmi, lo, hi) ==
    IF mmi <= lo THEN 1
    ELSE IF lo <= mmi /\ mmi < hi THEN 2
    ELSE 3

\* if mmi < lo: 1 (low); elif lo <= mmi < hi: 2 (medium); else: 3 (high)
Damage(mmi, lo, hi) ==
    IF mmi < lo THEN 1
    ELSE IF lo <= mmi /\ mmi < hi THEN 2
    ELSE 3

\* sampled shaking levels: 5.999, 6.0, 6.999, 7.0 and 8.0 MMI
SampleMMI == {5999, 6000, 6999, 7000, 8000}

\* scipy.stats.lognorm.cdf(mmi, beta, scale=median) * 100 for the classes
\* '1' (median 7.5, beta 0.11) and '4' (median 8.4, beta 0.05) of
\* damage_curves, tabulated at the sampled shaking levels and rounded to 0.1.
PercentDamage(mmi, building_type) ==
    IF building_type = 1
    THEN CASE mmi < 6999 -> 21 [] mmi < 8000 -> 265 [] OTHER -> 721
    ELSE CASE mmi < 8000 -> 0 [] OTHER -> 165

\* the attribute a plugin reads the building class from (exposure layers
\* whose name does not start with 'osm')
VclassTag(p) ==
    IF p = "EarthquakeGuidelinesFunction" THEN "VCLASS" ELSE "TestBLDGCl"

\* self.target_field: 'DMGLEVEL' in EarthquakeGuidelinesFunction; the Padang
\* class takes it from its base class, and the model gives it a name that no
\* sampled exposure attribute has.
TargetField(p) ==
    IF p = "EarthquakeGuidelinesFunction" THEN "DMGLEVEL" ELSE "DAMAGE"

\* the building classes an exposure layer may carry for a plugin
BuildingClasses(p) ==
    IF p = "EarthquakeGuidelinesFunction"
    THEN {Str("URM"), Str("RM")} ELSE {Num(1), Num(4)}

\* the damage quantity of one feature
Quantity(p, mmi, building_class) ==
    IF p = "EarthquakeGuidelinesFunction"
    THEN LET lohi == damage_parameters[building_class.s]
         IN  Damage(mmi, lohi[1], lohi[2])
    ELSE PercentDamage(mmi, building_class.n)

\* attributes an exposure layer may carry besides the building class, with
\* the value every feature has for them
ExtraAttributes ==
    [NAME |-> Str("school"), MMI |-> Str("unknown"), DMGLEVEL |-> Num(0)]
ExtraNames == DOMAIN ExtraAttributes

Feature(p, names, building_class) ==
    [k \in names \cup {VclassTag(p)} |->
        IF k = VclassTag(p) THEN building_class ELSE ExtraAttributes[k]]

\* exposure layers of a plugin: polygon or point data with 1 .. MaxFeatures
\* features that all carry the same attribute names
ExposureLayers(p) ==
    UNION { UNION { [is_polygon_data : BOOLEAN,
                     attribute_names : {names \cup {VclassTag(p)}},
                     data : [1..n -> {Feature(p, names, c) : c \in BuildingClasses(p)}]]
                    : names \in SUBSET ExtraNames }
            : n \in 1..MaxFeatures }

\* convert_polygons_to_centroids and H.interpolate: one point per exposure
\* feature and one hazard value per point.
Interpolate(layer) == [DOMAIN layer.data -> SampleMMI]

\* result_dict = {self.target_field: damage, 'MMI': mmi}, then
\* for key in attributes: result_dict[key] = E.get_data(key, i)
ResultDict(p, quantity, mmi, original) ==
    [key \in DOMAIN original \cup {TargetField(p), "MMI"} |->
        IF key \in DOMAIN original THEN original[key]
        ELSE IF key = TargetField(p) THEN Num(quantity)
        ELSE Num(mmi)]

\* Mutant: point data is accepted as well.
RequiresPolygons_never(p) == FALSE

\* EarthquakeGuidelinesFunction raises unless E.is_polygon_data; the Padang
\* function interpolates to E as it is.
RequiresPolygons(p) == p = "EarthquakeGuidelinesFunction"

\* Mutant: the hazard is interpolated before the exposure is checked.
StartRun_interpolatesFirst ==
    /\ pc = "run"
    /\ shaking' \in Interpolate(exposure)
    /\ IF RequiresPolygons(plugin) /\ ~exposure.is_polygon_data
       THEN /\ impact_layer' =
                  PyException("Exception", <<"Expected polygon building footprints">>)
            /\ pc' = "done"
       ELSE /\ pc' = "loop"
            /\ UNCHANGED impact_layer
    /\ UNCHANGED <<plugin, exposure, feature_index, computed, building_damage>>
    /\ Frame({"plugin"})

\* the lines of run before the loop
StartRun ==
    /\ pc = "run"
    /\ IF RequiresPolygons(plugin) /\ ~exposure.is_polygon_data
       THEN /\ impact_layer' =
                  PyException("Exception", <<"Expected polygon building footprints">>)
            /\ pc' = "done"
            /\ UNCHANGED shaking
       ELSE /\ shaking' \in Interpolate(exposure)
            /\ pc' = "loop"
            /\ UNCHANGED impact_layer
    /\ UNCHANGED <<plugin, exposure, feature_index, computed, building_damage>>
    /\ Frame({"plugin"})

\* one iteration of "for i in range(N)"
ProcessFeature ==
    /\ pc = "loop" /\ feature_index <= Len(shaking)
    /\ LET mmi == shaking[feature_index]
           original == exposure.data[feature_index]
           quantity == Quantity(plugin, mmi, original[VclassTag(plugin)])
       IN  /\ computed' = Append(computed, quantity)
           /\ building_damage' =
                 Append(building_damage, ResultDict(plugin, quantity, mmi, original))
    /\ feature_index' = feature_index + 1
    /\ UNCHANGED <<pc, plugin, exposure, shaking, impact_layer>>
    /\ Frame({"plugin"})

\* V = Vector(data=building_damage, ...); return V
ReturnVector ==
    /\ pc = "loop" /\ feature_index > Len(shaking)
    /\ impact_layer' = Returned(building_damage)
    /\ pc' = "done"
    /\ UNCHANGED <<plugin, exposure, shaking, feature_index, computed, building_damage>>
    /\ Frame({"plugin"})

NoPlugin ==
    /\ plugin = "" /\ exposure = <<>> /\ shaking = <<>> /\ feature_index = 0
    /\ computed = <<>> /\ building_damage = <<>> /\ impact_layer = Pending

(***************************************************************************)
(* safe_geonode/storage.py: get_metadata and get_metadata_from_layer       *)
(*                                                                         *)
(* A string is the sequence of its parts, the separators ",", ":" and " "  *)
(* being parts of their own, so that split and strip are modelled by what  *)
(* they do.  A dictionary is a function from its keys; every value is      *)
(* None or Return(v).                                                      *)
(***************************************************************************)
RECURSIVE Find(_, _, _)
\* the first position at or after k where s holds sep, 0 if there is none
Find(s, sep, k) ==
    IF k > Len(s) THEN 0
    ELSE IF s[k] = sep THEN k
    ELSE Find(s, sep, k + 1)

RECURSIVE StrSplit(_, _)
\* s.split(sep)
StrSplit(s, sep) ==
    LET k == Find(s, sep, 1)
    IN  IF k = 0 THEN <<s>>
        ELSE <<SubSeq(s, 1, k - 1)>> \o StrSplit(SubSeq(s, k + 1, Len(s)), sep)

\* s.split(sep, 1) of a string that contains sep
StrSplitOnce(s, sep) ==
    LET k == Find(s, sep, 1)
    IN  <<SubSeq(s, 1, k - 1), SubSeq(s, k + 1, Len(s))>>

RECURSIVE StrStrip(_)
\* s.strip()
StrStrip(s) ==
    IF s # <<>> /\ s[1] = " " THEN StrStrip(Tail(s))
    ELSE IF s # <<>> /\ s[Len(s)] = " " THEN StrStrip(SubSeq(s, 1, Len(s) - 1))
    ELSE s

\* d[key] = value
DictPut(d, key, value) ==
    [x \in DOMAIN d \cup {key} |-> IF x = key THEN value ELSE d[x]]

\* one keyword_string of a keyword: lines 151-155
AddKeywordString(d, keyword_string) ==
    IF Find(keyword_string, ":", 1) # 0
    THEN LET kv == StrSplitOnce(StrStrip(keyword_string), ":")
         IN  DictPut(d, kv[1], Return(kv[2]))
    ELSE DictPut(d, keyword_string, None)

RECURSIVE AddKeywordStrings(_, _)
AddKeywordStrings(d, strings) ==
    IF strings = <<>> THEN d
    ELSE AddKeywordStrings(AddKeywordString(d, Head(strings)), Tail(strings))

RECURSIVE ExtractKeywords(_, _)
\* for keyword in layer.keywords: lines 148-155; a keyword that is None is
\* skipped
ExtractKeywords(d, keywords) ==
    IF keywords = <<>> THEN d
    ELSE LET keyword == Head(keywords)
         IN  ExtractKeywords(
                 IF keyword = None THEN d
                 ELSE AddKeywordStrings(d, StrSplit(keyword.val, ",")),
                 Tail(keywords))

\* extract_WGS84_geotransform(layer): the geotransform of the coverage
extract_WGS84_geotransform(l) == l.grid

\* geotransform2resolution(geotransform, isotropic=False): (resx, resy)
geotransform2resolution(g) == <<g[2], -g[6]>>

\* metadata['layertype'] = layer.datatype
LayerTypeKey == "layertype"

EmptyDict == [x \in {} |-> None]

get_metadata_from_layer(l) ==
    IF ~l.has_keywords THEN Raise("Exception")
    ELSE
    LET geotransform_ ==
            IF l.datatype = "raster"
            THEN Return(extract_WGS84_geotransform(l)) ELSE None
        resolution ==
            IF l.datatype = "raster"
            THEN Return(geotransform2resolution(geotransform_.val)) ELSE None
        parsed == ExtractKeywords(EmptyDict, l.keywords)
        with_resolution ==
            IF resolution # None
            THEN DictPut(parsed, <<"resolution">>, Return(resolution.val[1]))
            ELSE parsed
        keyword_dict ==
            DictPut(with_resolution, <<"layertype">>, Return(l.datatype))
        title ==
            IF <<"title">> \in DOMAIN keyword_dict
            THEN keyword_dict[<<"title">>] ELSE Return(l.title)
    IN  Return([key \in {LayerTypeKey, "geotransform", "resolution",
                         "bounding_box", "title", "id", "keywords"} |->
                 CASE key = LayerTypeKey -> Return(l.datatype)
                   [] key = "geotransform" -> geotransform_
                   [] key = "resolution" -> resolution
                   [] key = "bounding_box" -> Return(l.boundingBoxWGS84)
                   [] key = "title" -> title
                   [] key = "id" -> Return(l.id)
                   [] OTHER -> Return(keyword_dict)])

\* get_metadata(server_url, layer_name) for one layer name: the layer is
\* looked up in the WCS and the WFS contents and its type patched in.
get_metadata(service, l) ==
    IF service = "none" THEN Raise("Exception")
    ELSE LET typed == [x \in DOMAIN l \cup {"datatype"} |->
                         IF x = "datatype"
                         THEN (IF service = "wcs" THEN "raster" ELSE "vector")
                         ELSE l[x]]
             m == get_metadata_from_layer(typed)
         IN  IF IsError(m) THEN m
             ELSE Return(DictPut(DictPut(m.val, "server_url", Return("ows")),
                                 "tile_url", Return("gmaps")))

\* sampled keywords of a layer, None included
SampleKeywords ==
    { None,
      Return(<<>>),
      Return(<<"category", ":", "hazard">>),
      Return(<<"title">>),
      Return(<<"title", ":", "Shakemap", " ", "Padang">>),
      Return(<<" ", "subcategory", ":", "earthquake", " ">>),
      Return(<<"category", ":", "exposure", ",", "title", ":", "Schools">>),
      Return(<<"source", ":", "http", ":", "//usgs">>),
      Return(<<"building", ",", " ", "osm">>) }

KeywordLists == UNION {[1..n -> SampleKeywords] : n \in 0..MaxKeywords}

\* the layer objects OWSLib may hand out
SampleOwsLayers ==
    [title : {"shakemap_padang"}, id : {"geonode:shakemap_padang"},
     boundingBoxWGS84 : {<<96, -5, 105, 2>>},
     grid : {<<96, 3, 0, 2, 0, -3>>, <<96, 1, 0, 2, 0, -1>>},
     has_keywords : BOOLEAN,
     keywords : KeywordLists]

NoMetadata ==
    ows_service = "" /\ ows_layer = <<>> /\ layer_metadata = NotCalled

(***************************************************************************)
(* safe_geonode/storage.py: save_file_to_geonode, after the upload         *)
(*                                                                         *)
(* The model starts where file_upload and layer.save() have succeeded      *)
(* (the else branch of the try statement).  Whether the metadata of the    *)
(* new layer is ready is the server's business: every call of check_layer  *)
(* may pass or raise.                                                      *)
(***************************************************************************)

\* Mutant: one more attempt.
Retries_five == 4 + 1

\* for i in range(4)
Retries == 4

\* time.sleep(0.3), in tenths of a second
SleepTenths == 3

\* what check_layer may raise: a failed assert, or get_metadata's Exception
\* for a layer not yet in the WCS/WFS contents
CheckLayerErrors ==
    { PyException("AssertionError", <<"bounding_box">>),
      PyException("Exception", <<"Layer was not found in WxS contents">>) }

SampleUploadedLayers == {"shakemap_padang", "osm_buildings"}

\* lines 660-667: without check_metadata the layer is returned at once
AfterUpload ==
    /\ pc = "uploaded"
    /\ IF ~check_metadata
       THEN /\ upload_result' = Returned(uploaded_layer)
            /\ pc' = "done"
            /\ UNCHANGED ok
       ELSE /\ ok' = FALSE
            /\ pc' = "try"
            /\ UNCHANGED upload_result
    /\ UNCHANGED <<check_metadata, uploaded_layer, retry, errmsg, attempts, slept>>
    /\ Frame({"upload"})

\* lines 668-678: one pass of the loop as far as the call of check_layer
CallCheckLayer ==
    /\ pc = "try" /\ retry < Retries
    /\ \/ /\ attempts' = Append(attempts, "ok")
          /\ ok' = TRUE
          /\ pc' = "after_loop"
          /\ UNCHANGED errmsg
       \/ \E e \in CheckLayerErrors :
             /\ attempts' = Append(attempts, e.tag)
             /\ errmsg' = e
             /\ pc' = "sleep"
             /\ UNCHANGED ok
    /\ UNCHANGED <<check_metadata, uploaded_layer, retry, slept, upload_result>>
    /\ Frame({"upload"})

\* line 675: time.sleep(0.3), then the next pass
Sleep ==
    /\ pc = "sleep"
    /\ slept' = slept + SleepTenths
    /\ retry' = retry + 1
    /\ pc' = "try"
    /\ UNCHANGED <<check_metadata, uploaded_layer, ok, errmsg, attempts, upload_result>>
    /\ Frame({"upload"})

\* the loop has run range(4) to its end
LoopExhausted ==
    /\ pc = "try" /\ retry >= Retries
    /\ pc' = "after_loop"
    /\ UNCHANGED uploadVars
    /\ Frame({"upload"})

\* lines 679-685: return layer, or raise Exception(msg)
ReturnOrRaise ==
    /\ pc = "after_loop"
    /\ upload_result' =
          IF ok THEN Returned(uploaded_layer)
          ELSE PyException("Exception",
                           <<"Could not confirm that layer was uploaded correctly">>
                           \o errmsg.message)
    /\ pc' = "done"
    /\ UNCHANGED <<check_metadata, uploaded_layer, retry, ok, errmsg, attempts, slept>>
    /\ Frame({"upload"})

NoUpload ==
    /\ check_metadata = FALSE /\ uploaded_layer = "" /\ retry = 0 /\ ok = FALSE
    /\ errmsg = NoException /\ attempts = <<>> /\ slept = 0
    /\ upload_result = Pending

(***************************************************************************)
(* safe_geonode/storage.py: save_to_geonode                                *)
(*                                                                         *)
(* The path passed in is a file, a directory or neither.  A file on disk   *)
(* is the record of its base name, its extension and whether a layer of    *)
(* that name exists already.  Whether save_file_to_geonode succeeds for a  *)
(* file is the business of the upload: each call may return or raise.      *)
(***************************************************************************)
Unbound == "unbound"

\* extension in ['.tif', '.shp', '.zip', '.asc']
Candidate(file) == file.extension \in {".tif", ".shp", ".zip", ".asc"}

FileName(file) == <<file.basename, file.extension>>

\* one call of save_file_to_geonode: the file, and whether the call raised
Attempt(file, raised_) == [name |-> FileName(file), raised |-> raised_]

SampleExtensions == {".shp", ".asc", ".lic"}

\* the file at position k of a directory listing
SampleFiles(k) ==
    [basename : {IF k = 1 THEN "buildings" ELSE IF k = 2 THEN "shakemap" ELSE "flood"},
     extension : SampleExtensions,
     existed : BOOLEAN]

DirectoryListings ==
    UNION { {listing \in [1..n -> UNION {SampleFiles(k) : k \in 1..n}] :
                \A k \in 1..n : listing[k] \in SampleFiles(k)}
            : n \in 0..MaxFiles }

\* what "incoming" may denote: an existing file, an existing directory, or
\* a name that does not exist
Incomings ==
    [kind : {"file"}, files : [1..1 -> SampleFiles(1)]]
    \cup [kind : {"directory"}, files : DirectoryListings]
    \cup [kind : {"missing"}, files : {<<>>}]

RECURSIVE SelectCandidates(_)
\* the (basename, filename) pairs appended to potential_files, in order
SelectCandidates(listing) ==
    IF listing = <<>> THEN <<>>
    ELSE (IF Candidate(Head(listing)) THEN <<Head(listing)>> ELSE <<>>)
         \o SelectCandidates(Tail(listing))

\* lines 722-751: potential_files is collected, or GeoNodeException raised
CollectFiles ==
    /\ pc = "collect"
    /\ IF incoming.kind = "missing"
       THEN /\ save_result' =
                  PyException("GeoNodeException",
                              <<"Please pass a filename or a directory name">>)
            /\ pc' = "done"
            /\ UNCHANGED potential_files
       ELSE /\ potential_files' = SelectCandidates(incoming.files)
            /\ pc' = "files"
            /\ UNCHANGED save_result
    /\ UNCHANGED <<incoming, ignore_errors, verbosity, skip, file_number,
                   status, current_layer, output, attempted>>
    /\ Frame({"save"})

\* lines 785-796: the rest of the loop body, once status and layer are what
\* the first part left them
AppendInfo(file, status_, layer_) ==
    IF status_ = Unbound
    THEN /\ save_result' = PyException("UnboundLocalError", <<"status">>)
         /\ pc' = "done"
         /\ UNCHANGED <<output, file_number>>
    ELSE IF status_ # "failed" /\ layer_ = Unbound
    THEN /\ save_result' = PyException("UnboundLocalError", <<"layer">>)
         /\ pc' = "done"
         /\ UNCHANGED <<output, file_number>>
    ELSE /\ output' = Append(output,
                             [file |-> FileName(file), status |-> status_,
                              name |-> IF status_ = "failed" THEN "" ELSE layer_])
         /\ file_number' = file_number + 1
         /\ UNCHANGED <<save_result, pc>>

\* "if verbosity > 0:" guards the print and the raise alike
RaisesOnError(v) == v > 0

\* lines 756-796: one pass of "for i, file_pair in enumerate(potential_files)"
ProcessFile ==
    /\ pc = "files" /\ file_number <= Len(potential_files)
    /\ LET file == potential_files[file_number]
       IN  IF file.existed /\ skip
           THEN /\ status' = "skipped"
                /\ current_layer' = file.basename
                /\ UNCHANGED attempted
                /\ AppendInfo(file, "skipped", file.basename)
           ELSE \/ \* save_file_to_geonode returns the layer
                   /\ attempted' = Append(attempted, Attempt(file, FALSE))
                   /\ status' = (IF file.existed THEN "updated" ELSE "created")
                   /\ current_layer' = file.basename
                   /\ AppendInfo(file, status', file.basename)
                \/ \* save_file_to_geonode raises
                   /\ attempted' = Append(attempted, Attempt(file, TRUE))
                   /\ IF ignore_errors
                      THEN /\ status' = "failed"
                           /\ UNCHANGED current_layer
                           /\ AppendInfo(file, "failed", current_layer)
                      ELSE IF RaisesOnError(verbosity)
                      THEN /\ save_result' =
                                 PyException("Exception", <<"Failed to process">>
                                                          \o FileName(file))
                           /\ pc' = "done"
                           /\ UNCHANGED <<status, current_layer, output, file_number>>
                      ELSE /\ UNCHANGED <<status, current_layer>>
                           /\ AppendInfo(file, status, current_layer)
    /\ UNCHANGED <<incoming, ignore_errors, verbosity, skip, potential_files>>
    /\ Frame({"save"})

\* line 797: return output
ReturnOutput ==
    /\ pc = "files" /\ file_number > Len(potential_files)
    /\ save_result' = Returned(output)
    /\ pc' = "done"
    /\ UNCHANGED <<incoming, ignore_errors, verbosity, skip, potential_files,
                   file_number, status, current_layer, output, attempted>>
    /\ Frame({"save"})

NoSave ==
    /\ incoming = <<>> /\ ignore_errors = FALSE /\ verbosity = 0 /\ skip = FALSE
    /\ potential_files = <<>> /\ file_number = 0 /\ status = Unbound
    /\ current_layer = Unbound /\ output = <<>> /\ attempted = <<>>
    /\ save_result = Pending

(***************************************************************************)
(* save_file_to_geonode (safe_geonode/storage.py): the keywords file, the   *)
(* conversion of an ASCII grid and the clean-up                            *)
(***************************************************************************)

MaxLines == 2

LAYER_TYPES == {".shp", ".asc", ".tif", ".tiff", ".geotif", ".geotiff"}

RECURSIVE StrJoin(_, _)
\* sep.join(parts)
StrJoin(sep, parts) ==
    IF parts = <<>> THEN <<>>
    ELSE IF Len(parts) = 1 THEN parts[1]
    ELSE parts[1] \o sep \o StrJoin(sep, Tail(parts))

\* word in s, for a word that is one token of the alphabet
Contains(s, word) == \E k \in DOMAIN s : s[k] = word

\* [x.strip() for x in parts]
StripAll(parts) == [k \in DOMAIN parts |-> StrStrip(parts[k])]

\* ':'.join([x.strip() for x in raw_keyword.split(':')])
StripAroundColons(raw_keyword) ==
    StrJoin(<<":">>, StripAll(StrSplit(raw_keyword, ":")))

\* the lines a keywords file may hold
SampleLines ==
    { <<>>,
      <<" ">>,
      <<"category", ":", "hazard">>,
      <<" ", "title", " ", ":", " ", "Shakemap">>,
      <<"osm">>,
      <<"impact_summary", ":", "Many", ":", "houses">>,
      <<"impact_table", ":", "Rows">> }

KeywordFiles ==
    {None} \cup {Return(f) : f \in UNION {[1..n -> SampleLines] : n \in 0..MaxLines}}

SourceFiles ==
    [extension : {".shp", ".asc", ".lic"}, has_prj : BOOLEAN, ignored : BOOLEAN]

\* the name unique_filename(prefix=prefix, suffix='.tif') hands out
TempTif == <<"tmp", "layer", ".tif">>

\* lines 552-573: ignore, the extension and the existence of the keywords
\* file
CheckExtension ==
    /\ pc = "begin"
    /\ IF source_file.ignored
       THEN /\ save_file_result' = Returned(<<>>)
            /\ pc' = "done"
       ELSE IF source_file.extension \notin LAYER_TYPES
       THEN /\ save_file_result' = PyException("RisikoException", <<"Invalid file extension">>)
            /\ pc' = "done"
       ELSE /\ pc' = IF kw_lines = None THEN "filetypes" ELSE "keywords"
            /\ UNCHANGED save_file_result
    /\ UNCHANGED <<source_file, title_arg, kw_lines, line_no, current_keyword,
                   keyword_list, kw_title, kw_summary, kw_table,
                   local_extension, upload_filename, temp_files,
                   uploaded_keywords>>
    /\ Frame({"savefile"})

\* lines 574-596: one pass of the loop over f.readlines()
ReadKeywordLine ==
    /\ pc = "keywords"
    /\ line_no <= Len(kw_lines.val)
    /\ LET raw_keyword == StrStrip(kw_lines.val[line_no])
           keyword == IF Contains(raw_keyword, ":")
                      THEN Return(StripAroundColons(raw_keyword))
                      ELSE current_keyword
           title_ == IF Contains(keyword.val, "title") /\ kw_title = None
                     THEN Return(StrSplit(keyword.val, ":")[2])
                     ELSE kw_title
       IN  IF raw_keyword = <<>>
           THEN /\ line_no' = line_no + 1
                /\ UNCHANGED <<pc, current_keyword, keyword_list, kw_title,
                               kw_summary, kw_table, save_file_result>>
           ELSE IF keyword = None
           THEN \* 'title' in keyword reads a local that was never assigned
                /\ save_file_result' = PyException("UnboundLocalError", <<"keyword">>)
                /\ pc' = "done"
                /\ UNCHANGED <<line_no, current_keyword, keyword_list,
                               kw_title, kw_summary, kw_table>>
           ELSE IF Contains(keyword.val, "title") /\ kw_title = None
                   /\ Len(StrSplit(keyword.val, ":")) < 2
           THEN /\ save_file_result' = PyException("IndexError", <<"list index out of range">>)
                /\ pc' = "done"
                /\ UNCHANGED <<line_no, current_keyword, keyword_list,
                               kw_title, kw_summary, kw_table>>
           ELSE /\ line_no' = line_no + 1
                /\ current_keyword' = keyword
                /\ kw_title' = title_
                /\ IF Contains(keyword.val, "impact_summary")
                   THEN /\ kw_summary' = Return(StrJoin(<<>>, Tail(StrSplit(keyword.val, ":"))))
                        /\ UNCHANGED <<kw_table, keyword_list>>
                   ELSE IF Contains(keyword.val, "impact_table")
                   THEN /\ kw_table' = Return(StrSplit(keyword.val, ":")[2])
                        /\ UNCHANGED <<kw_summary, keyword_list>>
                   ELSE /\ keyword_list' = Append(keyword_list, keyword.val)
                        /\ UNCHANGED <<kw_summary, kw_table>>
                /\ UNCHANGED <<pc, save_file_result>>
    /\ UNCHANGED <<source_file, title_arg, kw_lines, local_extension,
                   upload_filename, temp_files, uploaded_keywords>>
    /\ Frame({"savefile"})

\* lines 599-634: the file to upload; an ASCII grid is converted to a
\* GeoTIFF under a unique name, and extension is bound again to the
\* extension of that name
TakeCareOfFileTypes ==
    /\ \/ pc = "filetypes"
       \/ pc = "keywords" /\ line_no > Len(kw_lines.val)
    /\ IF local_extension = ".asc"
       THEN /\ upload_filename' = Return(TempTif)
            /\ local_extension' = TempTif[Len(TempTif)]
            /\ IF ~source_file.has_prj
               THEN /\ save_file_result' = PyException("RisikoException", <<"must have a projection file">>)
                    /\ pc' = "done"
                    /\ UNCHANGED temp_files
               ELSE /\ temp_files' = temp_files \cup {TempTif}
                    /\ pc' = "upload"
                    /\ UNCHANGED save_file_result
       ELSE /\ upload_filename' = Return(<<"layer", source_file.extension>>)
            /\ pc' = "upload"
            /\ UNCHANGED <<local_extension, temp_files, save_file_result>>
    /\ UNCHANGED <<source_file, title_arg, kw_lines, line_no, current_keyword,
                   keyword_list, kw_title, kw_summary, kw_table,
                   uploaded_keywords>>
    /\ Frame({"savefile"})

\* what the try block may end with: the layer is returned, file_upload
\* raises GeoNodeException, or the metadata check gives up
UploadOutcomes ==
    { Returned(<<"layer">>),
      PyException("GeoNodeException", <<"upload failed">>),
      PyException("Exception", <<"Could not confirm that layer was uploaded">>) }

\* lines 641-685: file_upload, layer.save and the metadata check
UploadLayer ==
    /\ pc = "upload"
    /\ uploaded_keywords' = Return(keyword_list)
    /\ \E r \in UploadOutcomes : save_file_result' = r
    /\ pc' = "finally"
    /\ UNCHANGED <<source_file, title_arg, kw_lines, line_no, current_keyword,
                   keyword_list, kw_title, kw_summary, kw_table,
                   local_extension, upload_filename, temp_files>>
    /\ Frame({"savefile"})

\* lines 686-690: finally
CleanUp ==
    /\ pc = "finally"
    /\ temp_files' = IF local_extension = ".asc"
                     THEN temp_files \ {upload_filename.val}
                     ELSE temp_files
    /\ pc' = "done"
    /\ UNCHANGED <<source_file, title_arg, kw_lines, line_no, current_keyword,
                   keyword_list, kw_title, kw_summary, kw_table,
                   local_extension, upload_filename, uploaded_keywords,
                   save_file_result>>
    /\ Frame({"savefile"})

NoSaveFile ==
    /\ source_file = [extension |-> "", has_prj |-> FALSE, ignored |-> FALSE]
    /\ title_arg = None /\ kw_lines = None /\ line_no = 0
    /\ current_keyword = None /\ keyword_list = <<>>
    /\ kw_title = None /\ kw_summary = None /\ kw_table = None
    /\ local_extension = "" /\ upload_filename = None /\ temp_files = {}
    /\ uploaded_keywords = None /\ save_file_result = Pending

(***************************************************************************)
(* write_keywords and read_keywords (impact/storage/utilities.py)          *)
(***************************************************************************)

MaxEntries == 2

\* keys of a keywords dictionary: strings without surrounding whitespace
SampleKeys ==
    { <<>>,
      <<"category">>,
      <<"sub", " ", "category">>,
      <<"line", "\n", "break">>,
      <<"a", ":", "b">> }

\* values of a keywords dictionary: None or a string
SampleValues ==
    { None,
      Return(<<>>),
      Return(<<"hazard">>),
      Return(<<"Padang", " ", "2009">>),
      Return(<<"two", "\n", "lines">>),
      Return(<<"http", ":", "//usgs">>) }

KeywordDicts ==
    UNION { [D -> SampleValues] :
              D \in {X \in SUBSET SampleKeys : Cardinality(X) <= MaxEntries} }

\* the orders keywords.items() may list the keys of d in
ItemOrders(d) ==
    { o \in [1..Cardinality(DOMAIN d) -> DOMAIN d] :
        \A a, b \in DOMAIN o : a # b => o[a] # o[b] }

RECURSIVE WriteItems(_, _, _)
\* the loop of write_keywords over the keys in order, from position k: the
\* text written, and whether an assertion stopped the loop
WriteItems(d, order, k) ==
    IF k > Len(order) THEN [text |-> <<>>, failed |-> FALSE]
    ELSE LET key == StrStrip(order[k])
             v == d[order[k]]
         IN  IF Contains(key, ":") THEN [text |-> <<>>, failed |-> TRUE]
             ELSE IF v = None
             THEN LET rest == WriteItems(d, order, k + 1)
                  IN  [text |-> key \o <<"\n">> \o rest.text,
                       failed |-> rest.failed]
             ELSE LET val == StrStrip(v.val)
                  IN  IF Contains(val, ":") THEN [text |-> <<>>, failed |-> TRUE]
                      ELSE LET rest == WriteItems(d, order, k + 1)
                           IN  [text |-> key \o <<":", " ">> \o val \o <<"\n">>
                                           \o rest.text,
                                failed |-> rest.failed]

\* fid.readlines(): the lines of the text, line ends dropped
ReadLines(text) ==
    LET parts == StrSplit(text, "\n")
    IN  IF parts[Len(parts)] = <<>> THEN SubSeq(parts, 1, Len(parts) - 1)
        ELSE parts

RECURSIVE ReadItems(_, _)
\* the loop of read_keywords over the lines, into the dictionary d
ReadItems(d, lines) ==
    IF lines = <<>> THEN Return(d)
    ELSE LET text == StrStrip(Head(lines))
             fields == StrSplit(text, ":")
         IN  IF text = <<>> THEN ReadItems(d, Tail(lines))
             ELSE IF Len(fields) \notin {1, 2} THEN Raise("AssertionError")
             ELSE ReadItems(DictPut(d, StrStrip(fields[1]),
                                    IF Len(fields) = 2
                                    THEN Return(StrStrip(fields[2]))
                                    ELSE None),
                            Tail(lines))


\* read_keywords(filename) for a file name ending in .keywords
read_keywords(f) ==
    IF f = None THEN Return(EmptyDict)
    ELSE ReadItems(EmptyDict, ReadLines(f.val))

\* write_keywords(keywords, filename): the file is opened for writing and
\* holds what was written before an assertion failed
WriteKeywords ==
    /\ pc = "start"
    /\ \E order \in ItemOrders(kw_dict) :
         LET w == WriteItems(kw_dict, order, 1)
         IN  /\ kw_file' = Return(w.text)
             /\ write_result' = IF w.failed THEN Raise("AssertionError")
                                ELSE Return(<<>>)
    /\ pc' = "written"
    /\ UNCHANGED <<kw_dict, read_result>>
    /\ Frame({"keywords"})

\* read_keywords(filename), before or after the file was written
ReadKeywords ==
    /\ pc \in {"start", "written"}
    /\ read_result' = read_keywords(kw_file)
    /\ pc' = "done"
    /\ UNCHANGED <<kw_dict, kw_file, write_result>>
    /\ Frame({"keywords"})

NoKeywords ==
    /\ kw_dict = EmptyDict /\ kw_file = None
    /\ write_result = NotCalled /\ read_result = NotCalled

(***************************************************************************)
(* calculate_polygon_area and calculate_polygon_centroid                   *)
(* (impact/storage/utilities.py).  numpy computes in binary floating point:*)
(* every operation rounds its exact result to the nearest number with      *)
(* Mantissa significant bits (ties to even).  A number is held as the      *)
(* integer count of its units of 1/Scale; below Scale the unit is the      *)
(* finest step.  float64 has 53 significant bits; the model keeps the      *)
(* arithmetic and scales the mantissa and the coordinates down together.   *)
(***************************************************************************)

GridMax == 2

Mantissa == 6

RECURSIVE Pow2(_)
Pow2(n) == IF n = 0 THEN 1 ELSE 2 * Pow2(n - 1)

Scale == Pow2(Mantissa)

RECURSIVE BitLength(_)
\* the number of binary digits of n >= 0
BitLength(n) == IF n = 0 THEN 0 ELSE 1 + BitLength(n \div 2)

\* n / d for n >= 0 and d > 0, rounded to the nearest integer, ties to even
RoundHalfEven(n, d) ==
    LET f == n \div d
        r == n % d
    IN  IF 2 * r < d THEN f
        ELSE IF 2 * r > d THEN f + 1
        ELSE IF f % 2 = 0 THEN f ELSE f + 1

\* the floating point number nearest to n / d units, for d > 0
Rnd(n, d) ==
    LET mag == Abs(n)
        bits == BitLength(mag \div d)
        quantum == IF bits > Mantissa THEN Pow2(bits - Mantissa) ELSE 1
        rounded == quantum * RoundHalfEven(mag, d * quantum)
    IN  IF n < 0 THEN -rounded ELSE rounded

ToFloat(n) == n * Scale
FAdd(a, b) == Rnd(a + b, 1)
FSub(a, b) == Rnd(a - b, 1)
FMul(a, b) == Rnd(a * b, Scale)
\* a / b for b # 0; the sign of the quotient is the product of the signs
FDiv(a, b) == IF b < 0 THEN Rnd(-(a * Scale), -b) ELSE Rnd(a * Scale, b)

\* a division by zero gives inf or nan and a warning, not an exception
NotANumber == [tag |-> "nan", val |-> <<>>]

RECURSIVE FSum(_)
\* numpy.sum of a short array: the elements are added in order
FSum(s) == IF s = <<>> THEN 0 ELSE FAdd(FSum(SubSeq(s, 1, Len(s) - 1)), s[Len(s)])

\* numpy.array(polygon): the coordinates as floating point numbers
AsArray(ring) == [k \in DOMAIN ring |-> <<ToFloat(ring[k][1]), ToFloat(ring[k][2])>>]

\* x[:-1] * y[1:] - y[:-1] * x[1:], element by element
CrossTerms(P) ==
    [k \in 1..(Len(P) - 1) |->
        FSub(FMul(P[k][1], P[k + 1][2]), FMul(P[k][2], P[k + 1][1]))]

\* calculate_polygon_area(polygon, signed) on the array P
calculate_polygon_area(P, signed) ==
    LET A == FDiv(FSum(CrossTerms(P)), ToFloat(2))
    IN  IF signed THEN A ELSE Abs(A)

\* numpy.amin over one column
amin(column) == CHOOSE x \in column : \A y \in column : x <= y

\* calculate_polygon_centroid asks for the signed area
SignedArea == TRUE

\* calculate_polygon_centroid(polygon) on the array of the ring
calculate_polygon_centroid(ring) ==
    LET polygon_ == AsArray(ring)
        P_origin == <<amin({polygon_[k][1] : k \in DOMAIN polygon_}),
                      amin({polygon_[k][2] : k \in DOMAIN polygon_})>>
        P == [k \in DOMAIN polygon_ |->
                <<FSub(polygon_[k][1], P_origin[1]),
                  FSub(polygon_[k][2], P_origin[2])>>]
        A == calculate_polygon_area(polygon_, SignedArea)
        ab == CrossTerms(P)
        cx == [k \in DOMAIN ab |-> FAdd(P[k][1], P[k + 1][1])]
        cy == [k \in DOMAIN ab |-> FAdd(P[k][2], P[k + 1][2])]
        sixA == FMul(ToFloat(6), A)
    IN  IF sixA = 0 THEN NotANumber
        ELSE Return(<<FAdd(FDiv(FSum([k \in DOMAIN ab |-> FMul(cx[k], ab[k])]), sixA),
                           P_origin[1]),
                      FAdd(FDiv(FSum([k \in DOMAIN ab |-> FMul(cy[k], ab[k])]), sixA),
                           P_origin[2])>>)

\* the ring listed in the opposite direction
Reversed(ring) == [k \in DOMAIN ring |-> ring[Len(ring) + 1 - k]]

\* every vertex moved by t
Translated(ring, t) == [k \in DOMAIN ring |-> <<ring[k][1] + t[1], ring[k][2] + t[2]>>]

\* twice the signed area of a ring of grid points, exactly
TwiceArea(ring) ==
    LET term[k \in 0..(Len(ring) - 1)] ==
            IF k = 0 THEN 0
            ELSE term[k - 1] + ring[k][1] * ring[k + 1][2]
                             - ring[k][2] * ring[k + 1][1]
    IN  term[Len(ring) - 1]

GridPoints == (0..GridMax) \X (0..GridMax)

UnitSquare == <<<<0, 0>>, <<1, 0>>, <<1, 1>>, <<0, 1>>, <<0, 0>>>>

\* closed rings with non-zero area: the triangles of the grid in both
\* winding directions, and the unit square
Rings ==
    {UnitSquare, Reversed(UnitSquare)} \cup
    { r \in { <<a, b, c, a>> : a \in GridPoints, b \in GridPoints, c \in GridPoints } :
        TwiceArea(r) # 0 }

\* translations: none, a small one, and one far from the origin
Shifts == { <<0, 0>>, <<1, 2>>, <<9, 17>> }

CalculateArea ==
    /\ pc = "call"
    /\ polygon_area' = Return(calculate_polygon_area(AsArray(polygon), FALSE))
    /\ pc' = "area"
    /\ UNCHANGED <<polygon, shift, centroid, centroid_reversed, centroid_translated>>
    /\ Frame({"centroid"})

CalculateCentroid ==
    /\ pc = "area"
    /\ centroid' = calculate_polygon_centroid(polygon)
    /\ pc' = "centroid"
    /\ UNCHANGED <<polygon, shift, polygon_area, centroid_reversed, centroid_translated>>
    /\ Frame({"centroid"})

CalculateCentroidReversed ==
    /\ pc = "centroid"
    /\ centroid_reversed' = calculate_polygon_centroid(Reversed(polygon))
    /\ pc' = "reversed"
    /\ UNCHANGED <<polygon, shift, polygon_area, centroid, centroid_translated>>
    /\ Frame({"centroid"})

CalculateCentroidTranslated ==
    /\ pc = "reversed"
    /\ centroid_translated' = calculate_polygon_centroid(Translated(polygon, shift))
    /\ pc' = "done"
    /\ UNCHANGED <<polygon, shift, polygon_area, centroid, centroid_reversed>>
    /\ Frame({"centroid"})

NoCentroid ==
    /\ polygon = <<>> /\ shift = <<0, 0>>
    /\ polygon_area = NotCalled /\ centroid = NotCalled
    /\ centroid_reversed = NotCalled /\ centroid_translated = NotCalled

(***************************************************************************)
(* check_data_integrity (impact/engine/core.py) on a pair of layers, in    *)
(* the order given and then in the opposite order                          *)
(***************************************************************************)

\* the verdict of a finished call
Verdict(o) == IF o.tag = "ok" THEN "passes" ELSE "fails"

\* the first call has finished: its verdict is kept and check_data_integrity
\* is entered again with the two layers exchanged
CheckOtherOrder ==
    /\ pc = "done"
    /\ first_verdict = "none"
    /\ first_verdict' = Verdict(outcome)
    /\ layer_files' = <<layer_files[2], layer_files[1]>>
    /\ idx' = 1
    /\ reference_projection' = InitialReferenceProjection
    /\ geotransform' = None
    /\ coordinates' = None
    /\ M' = maxint
    /\ N' = maxint
    /\ outcome' = Running
    /\ pc' = "check"
    /\ Frame({"integrity", "pair"})

NoPair == first_verdict = "none"

(***************************************************************************)
(* Two calls of calculate_impact (impact/engine/core.py, lines 60-69) that *)
(* overlap in time, and unique_filename (impact/storage/utilities.py)      *)
(***************************************************************************)

Invocations == {1, 2}

\* the file of that name, if there is one
FilesNamed(name) == {f \in shared_disk : f.name = name}

\* the disk after call p has written content c to the file called name,
\* created or truncated
DiskAfterWrite(name, p, c) ==
    (shared_disk \ FilesNamed(name)) \cup {[name |-> name, owner |-> p, content |-> c]}

\* the files another call had written that a write of call p to name destroys
Destroyed(name, p) == {f \in FilesNamed(name) : f.owner # p /\ f.content # "empty"}

\* mkstemp(suffix=extension): creates, atomically, an empty file whose name
\* did not exist; the random part of the name is mkstemp's choice
Mkstemp(p) ==
    /\ inv_pc[p] = "mkstemp"
    /\ \E dir \in TempDirs, name \in TempNames :
         LET filename == unique_filename(dir, name, inv_extension[p])
         IN  /\ FilesNamed(filename) = {}
             /\ inv_filename' = [inv_filename EXCEPT ![p] = filename]
             /\ shared_disk' = DiskAfterWrite(filename, p, "empty")
    /\ inv_pc' = [inv_pc EXCEPT ![p] = "remove"]
    /\ UNCHANGED <<pc, inv_extension, clobbered>>
    /\ Frame({"overlap"})

\* os.remove(filename), any error ignored
RemoveFile(name, p) == shared_disk \ {f \in FilesNamed(name) : f.owner = p}

\* unique_filename: the file is removed again and the name returned
RemoveAndReturn(p) ==
    /\ inv_pc[p] = "remove"
    /\ shared_disk' = RemoveFile(inv_filename[p], p)
    /\ inv_pc' = [inv_pc EXCEPT ![p] = "write_layer"]
    /\ UNCHANGED <<pc, inv_extension, inv_filename, clobbered>>
    /\ Frame({"overlap"})

\* F.write_to_file(output_filename)
WriteToFile(p) ==
    /\ inv_pc[p] = "write_layer"
    /\ shared_disk' = DiskAfterWrite(inv_filename[p], p, "layer")
    /\ clobbered' = clobbered \cup Destroyed(inv_filename[p], p)
    /\ inv_pc' = [inv_pc EXCEPT ![p] = "write_style"]
    /\ UNCHANGED <<pc, inv_extension, inv_filename>>
    /\ Frame({"overlap"})

\* f = open(output_filename.replace(extension, '.sld'), 'w'); f.write(style)
WriteStyleFile(p) ==
    /\ inv_pc[p] = "write_style"
    /\ LET sld == StyleFilename(inv_filename[p], inv_extension[p])
       IN  /\ shared_disk' = DiskAfterWrite(sld, p, "sld")
           /\ clobbered' = clobbered \cup Destroyed(sld, p)
    /\ inv_pc' = [inv_pc EXCEPT ![p] = "returned"]
    /\ UNCHANGED <<pc, inv_extension, inv_filename>>
    /\ Frame({"overlap"})

NoOverlap ==
    /\ inv_pc = <<>> /\ inv_extension = <<>> /\ inv_filename = <<>>
    /\ shared_disk = {} /\ clobbered = {}

(***************************************************************************)
(* Specifications: one per operation.  Init draws the arguments, the       *)
(* action is the call.                                                     *)
(***************************************************************************)
\* Variables of the operations a specification does not exercise.
NoBbox == args = <<>> /\ result = NotCalled
NoMinBox == bbox = <<>> /\ min_res = PyInt(0) /\ grown = <<>>
NoGeo == gt = <<>> /\ columns = 0 /\ rows = 0 /\ gbbox = <<>>
NoIntegrity ==
    /\ layer_files = <<>> /\ idx = 0 /\ reference_projection = NoProjection
    /\ geotransform = None /\ coordinates = None /\ M = 0 /\ N = 0
    /\ outcome = Running

\* Every operation other than the ones named in S is idle.
Idle(S) ==
    /\ IF "bbox" \in S THEN TRUE ELSE NoBbox
    /\ IF "minbox" \in S THEN TRUE ELSE NoMinBox
    /\ IF "geo" \in S THEN TRUE ELSE NoGeo
    /\ IF "integrity" \in S THEN TRUE ELSE NoIntegrity
    /\ IF "resolutions" \in S THEN TRUE ELSE NoResolutions
    /\ IF "impact" \in S THEN TRUE ELSE NoImpact
    /\ IF "plugin" \in S THEN TRUE ELSE NoPlugin
    /\ IF "metadata" \in S THEN TRUE ELSE NoMetadata
    /\ IF "upload" \in S THEN TRUE ELSE NoUpload
    /\ IF "save" \in S THEN TRUE ELSE NoSave
    /\ IF "savefile" \in S THEN TRUE ELSE NoSaveFile
    /\ IF "keywords" \in S THEN TRUE ELSE NoKeywords
    /\ IF "centroid" \in S THEN TRUE ELSE NoCentroid
    /\ IF "pair" \in S THEN TRUE ELSE NoPair
    /\ IF "overlap" \in S THEN TRUE ELSE NoOverlap

InitBbox ==
    /\ pc = "call"
    /\ args \in BoxTuples
    /\ result = NotCalled
    /\ Idle({"bbox"})

CallBboxIntersection ==
    /\ pc = "call"
    /\ result' = bbox_intersection(args)
    /\ pc' = "done"
    /\ UNCHANGED args
    /\ Frame({"bbox"})

NextBbox == CallBboxIntersection

SpecBbox == InitBbox /\ [][NextBbox]_vars

InitMinBox ==
    /\ pc = "call"
    /\ bbox \in PyBoxes
    /\ min_res \in PyNums
    /\ grown = <<>>
    /\ Idle({"minbox"})

CallMinimalBoundingBox ==
    /\ pc = "call"
    /\ grown' = minimal_bounding_box(bbox, min_res, DefaultEps)
    /\ pc' = "done"
    /\ UNCHANGED <<bbox, min_res>>
    /\ Frame({"minbox"})

NextMinBox == CallMinimalBoundingBox

SpecMinBox == InitMinBox /\ [][NextMinBox]_vars

InitGeo ==
    /\ pc = "call"
    /\ gt \in Geotransforms
    /\ columns \in 1..MaxDim
    /\ rows \in 1..MaxDim
    /\ gbbox = <<>>
    /\ Idle({"geo"})

CallGeotransform2bbox ==
    /\ pc = "call"
    /\ gbbox' = geotransform2bbox(gt, columns, rows)
    /\ pc' = "done"
    /\ UNCHANGED <<gt, columns, rows>>
    /\ Frame({"geo"})

NextGeo == CallGeotransform2bbox

SpecGeo == InitGeo /\ [][NextGeo]_vars

\* Entry of check_data_integrity: the local variables as set by lines 80-82.
EnterCheckDataIntegrity(layers) ==
    /\ pc = "check"
    /\ layer_files = layers
    /\ idx = 1
    /\ reference_projection = InitialReferenceProjection
    /\ geotransform = None
    /\ coordinates = None
    /\ M = maxint
    /\ N = maxint
    /\ outcome = Running

InitIntegrity ==
    /\ \E layers \in LayerLists : EnterCheckDataIntegrity(layers)
    /\ Idle({"integrity"})

NextIntegrity ==
    \/ CheckLayer
    \/ StartFindMinimum
    \/ FindMinimum
    \/ StartCheckAlignment
    \/ CheckAlignment
    \/ ReturnFromCheck

SpecIntegrity == InitIntegrity /\ [][NextIntegrity]_vars

InitResolutions ==
    /\ pc = "call"
    /\ haz_metadata \in SampleMetadata
    /\ exp_metadata \in SampleMetadata
    /\ raster_resolution = NotCalled
    /\ Idle({"resolutions"})

CallGetResolutions ==
    /\ pc = "call"
    /\ raster_resolution' = get_resolutions(haz_metadata, exp_metadata)
    /\ pc' = "done"
    /\ UNCHANGED <<haz_metadata, exp_metadata>>
    /\ Frame({"resolutions"})

NextResolutions == CallGetResolutions

SpecResolutions == InitResolutions /\ [][NextResolutions]_vars

\* "For the moment we take only a list with two elements containing one
\* hazard level one exposure level": the plugins read layers[0] and layers[1].
ImpactLayerLists == [1..2 -> SampleLayers]

InitImpact ==
    /\ \E layers \in ImpactLayerLists : EnterCheckDataIntegrity(layers)
    /\ impact_fcn \in ImpactFunctions
    /\ step = "check" /\ trace = <<>> /\ F = "none"
    /\ output_filename = <<>> /\ style = "none" /\ files = {}
    /\ raised = NoException /\ impact_result = Pending
    /\ Idle({"integrity", "impact"})

NextImpact ==
    \/ CheckLayer
    \/ StartFindMinimum
    \/ FindMinimum
    \/ StartCheckAlignment
    \/ CheckAlignment
    \/ ReturnFromCheck
    \/ CheckReturns
    \/ RunPlugin
    \/ WriteLayer
    \/ GenerateStyle
    \/ WriteStyle
    \/ ReturnFilename

SpecImpact == InitImpact /\ [][NextImpact]_vars

InitPlugin ==
    /\ pc = "run"
    /\ plugin \in ImpactFunctions
    /\ exposure \in ExposureLayers(plugin)
    /\ shaking = <<>>
    /\ feature_index = 1
    /\ computed = <<>>
    /\ building_damage = <<>>
    /\ impact_layer = Pending
    /\ Idle({"plugin"})

NextPlugin ==
    \/ StartRun
    \/ ProcessFeature
    \/ ReturnVector

SpecPlugin == InitPlugin /\ [][NextPlugin]_vars

InitMetadata ==
    /\ pc = "call"
    /\ ows_service \in {"wcs", "wfs", "none"}
    /\ ows_layer \in SampleOwsLayers
    /\ layer_metadata = NotCalled
    /\ Idle({"metadata"})

CallGetMetadata ==
    /\ pc = "call"
    /\ layer_metadata' = get_metadata(ows_service, ows_layer)
    /\ pc' = "done"
    /\ UNCHANGED <<ows_service, ows_layer>>
    /\ Frame({"metadata"})

NextMetadata == CallGetMetadata

SpecMetadata == InitMetadata /\ [][NextMetadata]_vars

InitUpload ==
    /\ pc = "uploaded"
    /\ check_metadata \in BOOLEAN
    /\ uploaded_layer \in SampleUploadedLayers
    /\ retry = 0 /\ ok = FALSE /\ errmsg = NoException
    /\ attempts = <<>> /\ slept = 0
    /\ upload_result = Pending
    /\ Idle({"upload"})

NextUpload ==
    \/ AfterUpload
    \/ CallCheckLayer
    \/ Sleep
    \/ LoopExhausted
    \/ ReturnOrRaise

SpecUpload == InitUpload /\ [][NextUpload]_vars

InitSave ==
    /\ pc = "collect"
    /\ incoming \in Incomings
    /\ ignore_errors \in BOOLEAN
    /\ verbosity \in {0, 1, 2}
    /\ skip \in BOOLEAN
    /\ potential_files = <<>> /\ file_number = 1
    /\ status = Unbound /\ current_layer = Unbound
    /\ output = <<>> /\ attempted = <<>>
    /\ save_result = Pending
    /\ Idle({"save"})

NextSave ==
    \/ CollectFiles
    \/ ProcessFile
    \/ ReturnOutput

SpecSave == InitSave /\ [][NextSave]_vars

InitSaveFile ==
    /\ pc = "begin"
    /\ source_file \in SourceFiles
    /\ title_arg \in {None, Return(<<"Given">>)}
    /\ kw_lines \in KeywordFiles
    /\ line_no = 1
    /\ current_keyword = None
    /\ keyword_list = <<>>
    /\ kw_title = title_arg
    /\ kw_summary = None /\ kw_table = None
    /\ local_extension = source_file.extension
    /\ upload_filename = None
    /\ temp_files = {}
    /\ uploaded_keywords = None
    /\ save_file_result = Pending
    /\ Idle({"savefile"})

NextSaveFile ==
    \/ CheckExtension
    \/ ReadKeywordLine
    \/ TakeCareOfFileTypes
    \/ UploadLayer
    \/ CleanUp

SpecSaveFile == InitSaveFile /\ [][NextSaveFile]_vars

InitKeywords ==
    /\ pc = "start"
    /\ kw_dict \in KeywordDicts
    /\ kw_file = None
    /\ write_result = NotCalled
    /\ read_result = NotCalled
    /\ Idle({"keywords"})

NextKeywords ==
    \/ WriteKeywords
    \/ ReadKeywords

SpecKeywords == InitKeywords /\ [][NextKeywords]_vars

InitCentroid ==
    /\ pc = "call"
    /\ polygon \in Rings
    /\ shift \in Shifts
    /\ polygon_area = NotCalled
    /\ centroid = NotCalled
    /\ centroid_reversed = NotCalled
    /\ centroid_translated = NotCalled
    /\ Idle({"centroid"})

NextCentroid ==
    \/ CalculateArea
    \/ CalculateCentroid
    \/ CalculateCentroidReversed
    \/ CalculateCentroidTranslated

SpecCentroid == InitCentroid /\ [][NextCentroid]_vars

InitPair ==
    /\ \E layers \in ImpactLayerLists : EnterCheckDataIntegrity(layers)
    /\ first_verdict = "none"
    /\ Idle({"integrity", "pair"})

NextPair ==
    \/ CheckLayer
    \/ StartFindMinimum
    \/ FindMinimum
    \/ StartCheckAlignment
    \/ CheckAlignment
    \/ ReturnFromCheck
    \/ CheckOtherOrder

SpecPair == InitPair /\ [][NextPair]_vars

InitOverlap ==
    /\ pc = "overlap"
    /\ inv_pc = [p \in Invocations |-> "mkstemp"]
    /\ inv_extension \in [Invocations -> {".tif", ".shp"}]
    /\ inv_filename = [p \in Invocations |-> <<>>]
    /\ shared_disk = {}
    /\ clobbered = {}
    /\ Idle({"overlap"})

NextOverlap ==
    \E p \in Invocations :
        \/ Mkstemp(p)
        \/ RemoveAndReturn(p)
        \/ WriteToFile(p)
        \/ WriteStyleFile(p)

SpecOverlap == InitOverlap /\ [][NextOverlap]_vars

(***************************************************************************)
(* Properties of bbox_intersection                                         *)
(***************************************************************************)
SetMax(S) == CHOOSE x \in S : \A y \in S : y <= x
SetMin(S) == CHOOSE x \in S : \A y \in S : x <= y
Column(a, i) == {a[k][i] : k \in 1..Len(a)}
AllValid(a) == \A k \in 1..Len(a) : ValidBox(a[k])
BoxOrNone(b) == IF b[1] < b[3] /\ b[2] < b[4] THEN Return(b) ELSE None

\* C1 as stated: for two or more valid boxes the call returns the box
\* [max W, max S, min E, min N] of its inputs when that box has W < E and
\* S < N, and None otherwise.
C1_MaxMinOfInputs ==
    (pc = "done" /\ Len(args) >= 2 /\ AllValid(args)) =>
        result = BoxOrNone(<<SetMax(Column(args, 1)), SetMax(Column(args, 2)),
                             SetMin(Column(args, 3)), SetMin(Column(args, 4))>>)

\* C1 amended: for two or more valid boxes the call returns the box
\* [max(-180, W's), max(-90, S's), min(180, E's), min(90, N's)], that is the
\* intersection of the inputs and the world box, when that box has W < E and
\* S < N, and None (never an exception) otherwise.
C1_ClippedToWorld ==
    (pc = "done" /\ Len(args) >= 2 /\ AllValid(args)) =>
        result = BoxOrNone(<<SetMax(Column(args, 1) \cup {-180}),
                             SetMax(Column(args, 2) \cup {-90}),
                             SetMin(Column(args, 3) \cup {180}),
                             SetMin(Column(args, 4) \cup {90})>>)

\* Two valid boxes whose intersection is a box different from both.
C1_Witness ==
    /\ pc = "done" /\ Len(args) = 2 /\ AllValid(args)
    /\ result.tag = "value"
    /\ result.val # args[1] /\ result.val # args[2]

Inside(inner, outer) ==
    /\ inner[1] >= outer[1] /\ inner[2] >= outer[2]
    /\ inner[3] <= outer[3] /\ inner[4] <= outer[4]

\* C2: for valid boxes A, B with a non-empty intersection,
\* bbox_intersection(A, B) = bbox_intersection(B, A), and a returned box
\* lies inside both A and B.
C2_CommutativeContained ==
    (/\ pc = "done" /\ Len(args) = 2 /\ AllValid(args)
     /\ Max(args[1][1], args[2][1]) < Min(args[1][3], args[2][3])
     /\ Max(args[1][2], args[2][2]) < Min(args[1][4], args[2][4])) =>
        /\ result = bbox_intersection(<<args[2], args[1]>>)
        /\ result.tag = "value" =>
              Inside(result.val, args[1]) /\ Inside(result.val, args[2])

\* Two different overlapping valid boxes, for which a box was returned.
C2_Witness ==
    /\ pc = "done" /\ Len(args) = 2 /\ AllValid(args)
    /\ args[1] # args[2]
    /\ ~Inside(args[1], args[2]) /\ ~Inside(args[2], args[1])
    /\ result.tag = "value"

\* C3: the call raises, returning neither a box nor None, when it gets
\* fewer than two boxes or when any box, at any position, has not exactly 4
\* coordinates, has W >= E or has S >= N.
C3_InvalidInputRaises ==
    (pc = "done" /\ (Len(args) < 2 \/ ~AllValid(args))) => IsError(result)

\* The only invalid box is the last argument, and it has S >= N.
C3_Witness ==
    /\ pc = "done" /\ Len(args) >= 2
    /\ \A k \in 1..(Len(args) - 1) : ValidBox(args[k])
    /\ LET b == args[Len(args)] IN Len(b) = 4 /\ b[1] < b[3] /\ b[2] >= b[4]
    /\ IsError(result)

(***************************************************************************)
(* Properties of minimal_bounding_box                                      *)
(***************************************************************************)
\* C4: for every box and every min_res the returned box has an east-west
\* and a north-south extent strictly greater than min_res.
C4_ExceedsMinRes ==
    pc = "done" =>
        /\ grown[3].v - grown[1].v > min_res.v
        /\ grown[4].v - grown[2].v > min_res.v

\* C5: the returned box contains the input box, a box that already meets
\* min_res on both axes is returned unchanged, and applying the operation
\* to its own result changes nothing.
C5_NeverShrinksIdempotent ==
    pc = "done" =>
        /\ grown[1].v <= bbox[1].v /\ grown[2].v <= bbox[2].v
        /\ grown[3].v >= bbox[3].v /\ grown[4].v >= bbox[4].v
        /\ (bbox[3].v - bbox[1].v >= min_res.v /\ bbox[4].v - bbox[2].v >= min_res.v)
              => SameBox(grown, bbox)
        /\ SameBox(minimal_bounding_box(grown, min_res, DefaultEps), grown)

(***************************************************************************)
(* Properties of geotransform2bbox                                         *)
(***************************************************************************)
\* C6: the call returns [originX, originY + rows*pixelHeight,
\* originX + columns*pixelWidth, originY]; for pixelWidth > 0,
\* pixelHeight < 0 and rows, columns >= 1 this is a valid box, and dividing
\* its extents by the pixel sizes recovers columns and rows to within 1.
C6_BboxRoundTrip ==
    pc = "done" =>
        /\ gbbox[1] = gt[1] /\ gbbox[4] = gt[4]
        /\ gbbox[3] - gbbox[1] = columns * gt[2]
        /\ gbbox[4] - gbbox[2] = rows * (0 - gt[6])
        /\ (gt[2] > 0 /\ gt[6] < 0 /\ rows >= 1 /\ columns >= 1) =>
              /\ gbbox[1] < gbbox[3] /\ gbbox[2] < gbbox[4]
              /\ Abs(((gbbox[3] - gbbox[1]) \div gt[2]) - columns) <= 1
              /\ Abs(((gbbox[4] - gbbox[2]) \div (0 - gt[6])) - rows) <= 1

\* A north-up grid with more rows than columns and unequal pixel sizes.
C6_Witness ==
    /\ pc = "done" /\ gt[2] = 2 /\ gt[6] = -1 /\ gt[3] = 0 /\ gt[5] = 0
    /\ rows = 3 /\ columns = 1
    /\ gbbox[1] < gbbox[3] /\ gbbox[2] < gbbox[4]

(***************************************************************************)
(* Properties of check_data_integrity                                      *)
(***************************************************************************)
Projections == {layer_files[k].projection : k \in 1..Len(layer_files)}
Raised == outcome.tag \in {"AssertionError", "ValueError"}

\* C7 as stated: the projection check passes for every list in which each
\* layer has the projection of the first layer, and the call fails when some
\* layer's projection differs from the first layer's.
C7_SameAsFirstLayer ==
    pc = "done" =>
        /\ Cardinality(Projections) <= 1 => outcome.check # "projection"
        /\ Cardinality(Projections) > 1 => Raised

\* C7 amended: the projection check passes exactly for the lists in which
\* every layer has the default (WGS84) projection; the call fails at the
\* first layer whose projection is not the default, before any other check
\* on that layer, hence also whenever some layer's projection differs from
\* the first layer's.
C7_DefaultProjectionEnforced ==
    pc = "done" =>
        /\ Projections \subseteq {"WGS84"} => outcome.check # "projection"
        /\ \A k \in 1..Len(layer_files) :
              layer_files[k].projection # "WGS84" =>
                 /\ Raised
                 /\ outcome.at <= k
                 /\ outcome.at = k => outcome.check = "projection"
        /\ Cardinality(Projections) > 1 => Raised

\* The second layer is the first one that is not WGS84.
C7_Witness ==
    /\ pc = "done" /\ Len(layer_files) = 2
    /\ layer_files[1].projection = "WGS84"
    /\ layer_files[2].projection # "WGS84"
    /\ outcome = Failed("AssertionError", "projection", 2)

TwoRasters ==
    /\ Len(layer_files) = 2
    /\ \A k \in 1..2 : layer_files[k].is_raster /\ layer_files[k].projection = "WGS84"
G1 == layer_files[1].geotransform
G2 == layer_files[2].geotransform
OnlyWidthsDiffer == \A i \in {1, 3, 4, 5, 6} : G1[i] = G2[i]
\* the widths differ by pct percent of one of them
WidthsDifferBy(pct) ==
    \/ 100 * Abs(G1[2] - G2[2]) = pct * Abs(G1[2])
    \/ 100 * Abs(G1[2] - G2[2]) = pct * Abs(G2[2])

\* C8 as stated: two rasters pass the geotransform check exactly when each
\* of the 6 components differs by at most 10% (of the later layer's value);
\* widths differing by 15% fail, by 5% pass.
C8_TenPercentRelative ==
    (pc = "done" /\ TwoRasters) =>
        /\ outcome.check # "geotransform" <=>
              \A i \in 1..6 : 10 * Abs(G1[i] - G2[i]) <= Abs(G2[i])
        /\ (OnlyWidthsDiffer /\ WidthsDifferBy(15)) => outcome.check = "geotransform"
        /\ (OnlyWidthsDiffer /\ WidthsDifferBy(5)) => outcome.check # "geotransform"

\* C8 amended: two rasters pass the geotransform check exactly when each
\* component satisfies |g1 - g2| <= 1.0e-8 + 0.1 * |g2|, g2 being the later
\* layer's value; widths of at least 1.0e-6 differing by 15% fail, widths
\* differing by 5% pass.
C8_AllcloseTolerance ==
    (pc = "done" /\ TwoRasters) =>
        /\ outcome.check # "geotransform" <=>
              \A i \in 1..6 : 10 * Abs(G1[i] - G2[i]) <= 10 + Abs(G2[i])
        /\ (OnlyWidthsDiffer /\ WidthsDifferBy(15)
               /\ Abs(G1[2]) >= 100 /\ Abs(G2[2]) >= 100)
              => outcome = Failed("AssertionError", "geotransform", 2)
        /\ (OnlyWidthsDiffer /\ WidthsDifferBy(5)) => outcome.check # "geotransform"

\* Pixel widths 100 and 115 (15% apart), everything else equal: the check fails.
C8_Witness ==
    /\ pc = "done" /\ TwoRasters /\ OnlyWidthsDiffer
    /\ G1[2] = 100 /\ G2[2] = 115
    /\ outcome.check = "geotransform"

TwoVectors ==
    /\ Len(layer_files) = 2
    /\ \A k \in 1..2 : layer_files[k].is_vector /\ layer_files[k].projection = "WGS84"
P1 == layer_files[1].geometry
P2 == layer_files[2].geometry

EmptyVector(k) == layer_files[k].is_vector /\ Len(layer_files[k].geometry) = 0

\* C10: a list that contains a vector layer with zero features, at any
\* position, makes the call fail, and it fails with the 'no data points to
\* interpolate to' assertion on that layer unless a check made before it
\* (on an earlier layer, or the projection or coordinate check of that
\* layer) has failed already.
C10_EmptyVectorFails ==
    pc = "done" =>
        \A k \in 1..Len(layer_files) :
            EmptyVector(k) =>
                /\ Raised
                /\ \/ outcome.at < k
                   \/ outcome.at = k /\ outcome.check \in {"projection", "coordinates"}
                   \/ outcome = Failed("AssertionError", "nodata", k)

\* A raster followed by an empty vector layer: the no-data assertion of the
\* second layer fails.
C10_Witness ==
    /\ pc = "done" /\ Len(layer_files) = 2
    /\ layer_files[1].is_raster /\ EmptyVector(2)
    /\ outcome = Failed("AssertionError", "nodata", 2)

Rasters == {k \in 1..Len(layer_files) : layer_files[k].is_raster}

\* C11: the call succeeds only if all raster layers of the list have the
\* same number of rows and the same number of columns, each equal to the
\* minimum over the raster layers; a raster whose rows or columns differ
\* makes it fail with the rows or the columns assertion.
C11_RastersAligned ==
    pc = "done" =>
        /\ outcome.tag = "ok" =>
              \A j \in Rasters : \A k \in Rasters :
                  /\ layer_files[j].rows = layer_files[k].rows
                  /\ layer_files[j].columns = layer_files[k].columns
        /\ outcome.check = "rows" =>
              layer_files[outcome.at].rows
                  # SetMin({layer_files[k].rows : k \in Rasters})
        /\ outcome.check = "columns" =>
              layer_files[outcome.at].columns
                  # SetMin({layer_files[k].columns : k \in Rasters})

\* Two rasters with equal rows and different columns: the columns assertion
\* fails.
C11_Witness ==
    /\ pc = "done" /\ Len(layer_files) = 2 /\ Rasters = {1, 2}
    /\ layer_files[1].rows = layer_files[2].rows
    /\ layer_files[1].columns # layer_files[2].columns
    /\ outcome.tag = "AssertionError" /\ outcome.check = "columns"

(***************************************************************************)
(* Properties of get_resolutions                                           *)
(***************************************************************************)
EitherIsVector ==
    haz_metadata.layer_type = "vector" \/ exp_metadata.layer_type = "vector"

\* C12: get_resolutions returns None when either metadata is vector-typed;
\* otherwise it returns the pair of the per-axis minima of the two
\* resolutions, which is no coarser than either input on either axis, and
\* swapping hazard and exposure gives the same answer.
C12_FinestCommonResolution ==
    pc = "done" /\ raster_resolution # NotCalled =>
        /\ EitherIsVector => raster_resolution = None
        /\ ~EitherIsVector =>
              LET h == haz_metadata.resolution.val
                  e == exp_metadata.resolution.val
              IN  /\ raster_resolution.tag = "value"
                  /\ \A i \in 1..2 :
                        /\ raster_resolution.val[i] \in {h[i], e[i]}
                        /\ raster_resolution.val[i] <= h[i]
                        /\ raster_resolution.val[i] <= e[i]
        /\ get_resolutions(exp_metadata, haz_metadata) = raster_resolution

\* Hazard at (0.01, 0.01) and exposure at (0.005, 0.02) give (0.005, 0.01).
C12_Witness ==
    /\ pc = "done"
    /\ haz_metadata = [layer_type |-> "raster", resolution |-> Return(<<2, 2>>)]
    /\ exp_metadata = [layer_type |-> "raster", resolution |-> Return(<<1, 4>>)]
    /\ raster_resolution = Return(<<1, 2>>)

(***************************************************************************)
(* Properties of calculate_impact                                          *)
(***************************************************************************)
StepOrder ==
    <<"check", "run", "write_layer", "generate_style", "write_style", "return">>
IsPrefix(s, t) == Len(s) <= Len(t) /\ s = SubSeq(t, 1, Len(s))
Executed(s) == \E i \in DOMAIN trace : trace[i] = s

\* C13: in every call of calculate_impact the steps executed are a prefix of
\* alignment check, plugin run, write of the output layer, generate_style,
\* write of the style file, return of the filename (so they keep that order
\* and none runs twice); run is executed only after the check passed; once a
\* step has failed nothing more is executed or written and no filename is
\* returned; a filename is returned only after all the steps.
C13_StepsInOrder ==
    [][ /\ IsPrefix(trace', StepOrder)
        /\ (\E i \in DOMAIN trace' : trace'[i] = "run") => outcome' = Passed
        /\ step = "failed" =>
              /\ UNCHANGED <<trace, files, impact_result>>
              /\ impact_result.tag \notin {"value", "pending"}
        /\ impact_result'.tag = "value" => trace' = StepOrder ]_vars

C13_Witness ==
    /\ step = "returned" /\ trace = StepOrder /\ outcome = Passed
    /\ impact_result = Returned(output_filename)

Directory(path) == SubSeq(path, 1, Len(path) - 2)
BaseName(path) == path[Len(path) - 1]
Suffix(path) == path[Len(path)]
Written(content) == {f \in files : f.content = content}

\* C14: the output layer is written to the returned file name, whose
\* extension is .tif for a raster result and .shp otherwise, and the style is
\* written to the file with exactly the same directory and base name and the
\* extension .sld.
C14_StyleIsSibling ==
    /\ \A f \in Written("layer") :
          /\ f.name = output_filename
          /\ Suffix(f.name) = (IF F = "raster" THEN ".tif" ELSE ".shp")
    /\ \A f \in Written("sld") :
          /\ Directory(f.name) = Directory(output_filename)
          /\ BaseName(f.name) = BaseName(output_filename)
          /\ Suffix(f.name) = ".sld"

PluginRaised == raised \in PluginExceptions
Parts(message) == {message[i] : i \in DOMAIN message}

Guidelines == plugin = "EarthquakeGuidelinesFunction"
Processed == 1..Len(computed)
Breakpoints(k) == damage_parameters[exposure.data[k]["VCLASS"].s]

KeepsOriginalAttributes(k) ==
    \A key \in exposure.attribute_names :
        /\ key \in DOMAIN impact_layer.val[k]
        /\ impact_layer.val[k][key] = exposure.data[k][key]

OneFeaturePerExposureFeature ==
    /\ impact_layer.tag = "value"
    /\ Len(impact_layer.val) = Len(exposure.data)
    /\ \A k \in 1..Len(exposure.data) : KeepsOriginalAttributes(k)

C18_ComputedFieldsHold ==
    pc = "done" /\ impact_layer.tag = "value" =>
        \A k \in 1..Len(impact_layer.val) :
            /\ impact_layer.val[k][TargetField(plugin)] = Num(computed[k])
            /\ impact_layer.val[k]["MMI"] = Num(shaking[k])

(***************************************************************************)
(* Properties of get_metadata                                              *)
(***************************************************************************)
RequiredKeys ==
    {"id", "title", "layer_type", "keywords", "bounding_box", "resolution",
     "geotransform"}

\* C19: the dictionary returned by get_metadata for a layer always contains
\* the keys id, title, layer_type, keywords, bounding_box, resolution and
\* geotransform; layer_type is 'raster' or 'vector'; resolution and
\* geotransform are null exactly for vector layers.
C19_MetadataKeys ==
    pc = "done" /\ layer_metadata.tag = "value" =>
        LET m == layer_metadata.val
        IN  /\ RequiredKeys \subseteq DOMAIN m
            /\ m["layer_type"].val \in {"raster", "vector"}
            /\ m["resolution"] = None <=> m["layer_type"].val = "vector"
            /\ m["geotransform"] = None <=> m["layer_type"].val = "vector"

(***************************************************************************)
(* Properties of save_file_to_geonode                                      *)
(***************************************************************************)
Failures == {k \in DOMAIN attempts : attempts[k] # "ok"}

\* C20: with check_metadata=True, check_layer is called at most 4 times,
\* 0.3 s is slept after each failed attempt and at no other time, the first
\* attempt that succeeds is the last one and the layer is returned, and an
\* exception is raised when all 4 attempts have failed; with
\* check_metadata=False the layer is returned without any call of
\* check_layer.
C20_BoundedRetry ==
    /\ Len(attempts) <= 4
    /\ \A k \in DOMAIN attempts : attempts[k] = "ok" => k = Len(attempts)
    /\ pc # "sleep" => slept = 3 * Cardinality(Failures)
    /\ pc = "sleep" => slept = 3 * (Cardinality(Failures) - 1)
    /\ ~check_metadata => attempts = <<>> /\ slept = 0
    /\ pc = "done" /\ upload_result # Pending =>
          IF ~check_metadata \/ (attempts # <<>> /\ attempts[Len(attempts)] = "ok")
          THEN upload_result = Returned(uploaded_layer)
          ELSE /\ upload_result.tag = "Exception"
               /\ Cardinality(Failures) = 4

\* three failed attempts, then a success
C20_Witness ==
    /\ pc = "done" /\ check_metadata
    /\ attempts = <<"AssertionError", "Exception", "Exception", "ok">>
    /\ slept = 9
    /\ upload_result = Returned(uploaded_layer)

(***************************************************************************)
(* Properties of save_to_geonode                                           *)
(***************************************************************************)
SingleUnsupportedFile ==
    incoming.kind = "file" /\ ~Candidate(incoming.files[1])

\* C21: save_to_geonode raises RisikoException, and uploads nothing, when it
\* is given a single file whose extension is not a supported layer type, or
\* a file or directory name that does not exist.
C21_RejectsWithRisikoException ==
    pc = "done" /\ save_result # Pending
    /\ (SingleUnsupportedFile \/ incoming.kind = "missing") =>
        /\ save_result.tag = "RisikoException"
        /\ attempted = <<>>

FailedAttempts == {k \in DOMAIN attempted : attempted[k].raised}

\* C26: with ignore_errors=False, when saving a candidate file fails,
\* save_to_geonode raises an exception and processes no further file,
\* whatever the verbosity; no result entry is appended for the failed file,
\* so no status or layer name of an earlier file is reported for it.
C26_StopsAtFirstFailure ==
    ~ignore_errors =>
        \A k \in FailedAttempts :
            /\ k = Len(attempted)
            /\ pc = "done"
            /\ save_result.tag \notin {"pending", "value"}
            /\ \A j \in DOMAIN output : output[j].file # attempted[k].name


(***************************************************************************)
(* Properties of save_file_to_geonode                                      *)
(***************************************************************************)

\* the non-blank lines of the keywords file, as the keyword each stands for
NonBlankKeywords ==
    IF kw_lines = None THEN {}
    ELSE { StripAroundColons(StrStrip(kw_lines.val[k])) :
             k \in {j \in DOMAIN kw_lines.val : StrStrip(kw_lines.val[j]) # <<>>} }

\* C22: when a .keywords file sits next to the layer file, every non-blank
\* line of it, with the whitespace around ':' removed, is in the keyword
\* list that save_file_to_geonode passes to the upload, whether the line has
\* a ':' or not.
C22_EveryLineIsUploaded ==
    uploaded_keywords # None =>
        \A keyword \in NonBlankKeywords :
            \E k \in DOMAIN uploaded_keywords.val :
                uploaded_keywords.val[k] = keyword

\* C27: the temporary GeoTIFF made for a .asc file is gone by the time
\* save_file_to_geonode finishes, whether the upload and the metadata check
\* succeeded or one of them failed.
C27_TemporaryTifRemoved ==
    pc = "done" /\ source_file.extension = ".asc" => TempTif \notin temp_files


(***************************************************************************)
(* Properties of write_keywords and read_keywords                          *)
(***************************************************************************)

\* C23: read_keywords after write_keywords returns a dictionary equal to the
\* one written, for every dictionary of string keys and string-or-None
\* values that are stripped and free of ':'; read_keywords of a file that
\* does not exist returns the empty dictionary.
C23_KeywordsRoundTrip ==
    /\ read_result # NotCalled /\ write_result = Return(<<>>) =>
           read_result = Return(kw_dict)
    /\ read_result # NotCalled /\ kw_file = None =>
           read_result = Return(EmptyDict)


(***************************************************************************)
(* Properties of calculate_polygon_centroid                                *)
(***************************************************************************)

WindingIndependent ==
    centroid # NotCalled /\ centroid_reversed # NotCalled =>
        centroid_reversed = centroid

TranslationCovariant ==
    centroid # NotCalled /\ centroid_translated # NotCalled =>
        /\ centroid.tag = "value"
        /\ centroid_translated.tag = "value"
        /\ centroid_translated.val =
               <<centroid.val[1] + ToFloat(shift[1]),
                 centroid.val[2] + ToFloat(shift[2])>>

UnitSquareValues ==
    polygon = UnitSquare =>
        /\ polygon_area # NotCalled => polygon_area = Return(ToFloat(1))
        /\ centroid # NotCalled =>
               centroid = Return(<<Scale \div 2, Scale \div 2>>)

\* C24: for every closed ring with non-zero area the centroid returned does
\* not depend on the winding direction, translating the ring by t translates
\* the centroid by exactly t, and the unit square has area 1 and centroid
\* (0.5, 0.5).
C24_CentroidCovariant ==
    /\ WindingIndependent
    /\ TranslationCovariant
    /\ UnitSquareValues


\* C25: EarthquakeGuidelinesFunction.run fails with an exception whenever
\* the exposure layer is not polygon data; the hazard raster's interpolate is
\* then never called (no interpolated value exists at any time) and no
\* output layer is constructed.
C25_NonPolygonFailsBeforeInterpolation ==
    Guidelines /\ ~exposure.is_polygon_data =>
        /\ shaking = <<>>
        /\ computed = <<>> /\ building_damage = <<>>
        /\ impact_layer.tag \in {"pending", "Exception"}
        /\ pc = "done" => impact_layer.tag = "Exception"

C25_Witness ==
    /\ Guidelines /\ pc = "done"
    /\ ~exposure.is_polygon_data /\ Len(exposure.data) = MaxFeatures
    /\ impact_layer.tag = "Exception"
    /\ shaking = <<>>

(***************************************************************************)
(* Properties of check_data_integrity on a pair                            *)
(***************************************************************************)

\* C28: the verdict of check_data_integrity on a pair of layers does not
\* depend on the order the two layers are listed in: the call on [A, B]
\* passes if and only if the call on [B, A] passes.
C28_VerdictIgnoresOrder ==
    pc = "done" /\ first_verdict # "none" =>
        first_verdict = Verdict(outcome)


\* C29: calculate_impact is all-or-nothing on disk: when it returns a file
\* name, the layer file of that name and the style file have both been
\* written; when it raises, no layer file written by the call is left.
C29_AllOrNothingOnDisk ==
    /\ impact_result.tag = "value" =>
           /\ \E f \in Written("layer") : f.name = impact_result.val
           /\ Written("sld") # {}
    /\ impact_result.tag \notin {"pending", "value"} =>
           Written("layer") = {}


(***************************************************************************)
(* Properties of two overlapping calls of calculate_impact                 *)
(***************************************************************************)

\* C30: two calculate_impact calls that overlap in time never obtain the
\* same output file name from unique_filename, and neither overwrites the
\* layer file or the style file of the other.
C30_NoSharedOutputFile ==
    /\ inv_filename[1] # <<>> /\ inv_filename[2] # <<>> =>
           inv_filename[1] # inv_filename[2]
    /\ clobbered = {}

====
